---- MODULE Spec2Model ----
(***************************************************************************)
(* A model of intervals_mcp_server.mcp_compat: the FastMCP shim, its tool  *)
(* registry and the multi-strategy binding performed by FastMCP.run().     *)
(* The host runtime is external code: every call into it returns normally  *)
(* or raises, chosen nondeterministically, and every call is logged.       *)
(***************************************************************************)
EXTENDS Integers, Sequences, FiniteSets, TLC

\* ------------------------------------------------------------------ bounds
\* Number of mcp.tool()(f) registrations in one behaviour.
MaxRegs == 3

\* ------------------------------------------------------ callables and tools
\* The callables a program may decorate; f1 and f2 share one declared name.
Funcs == {"f1", "f2", "f3"}

\* func.__name__
FuncName(f) == IF f = "f3" THEN "beta" ELSE "alpha"

NoDoc == "<None>"

\* func.__doc__ (None when the callable has no docstring)
FuncRawDoc(f) == IF f = "f1" THEN "doc one" ELSE IF f = "f3" THEN "doc three" ELSE NoDoc

\* Tool.__init__: name = name or func.__name__, doc = func.__doc__ or ""
Tool(f) ==
    [func |-> f, name |-> FuncName(f), doc |-> IF FuncRawDoc(f) = NoDoc THEN "" ELSE FuncRawDoc(f)]

NoLifespan == "<None>"
Lifespans == {NoLifespan, "lifespan"}

\* FastMCP("intervals-icu", ...): the name given at construction
ShimName == "intervals-icu"

\* ----------------------------------------------------------- host runtime
Candidates == <<"openai.mcp", "openai_mcp", "openai_mcp.server">>

\* What the probed runtime_server object exposes: its callable attributes,
\* and (instRun) whether an instance of its FastMCP / Server class has a run
\* attribute, which only a host that has such a class can have.
HostShapes ==
    {h \in [register_tool : BOOLEAN, tool : BOOLEAN, FastMCP : BOOLEAN, Server : BOOLEAN,
            run : BOOLEAN, serve : BOOLEAN, instRun : BOOLEAN] :
        h.instRun => (h.FastMCP \/ h.Server)}

NoHost == [register_tool |-> FALSE, tool |-> FALSE, FastMCP |-> FALSE, Server |-> FALSE,
           run |-> FALSE, serve |-> FALSE, instRun |-> FALSE]

\* How a call into external code ends where the caller tells an arity error
\* (TypeError) from any other exception.
Outcomes == {"ok", "TypeError", "Exception"}

\* How it ends where the caller treats every exception alike (a bare call
\* inside the outer try, or `except Exception`).
AnyOutcomes == {"ok", "Exception"}

NoArg == "<none>"

NoError == [type |-> "none", text |-> "", arg |-> ""]

\* An exception raised by external code called as `api`.
Raised(type, api) == [type |-> type, text |-> "raised by", arg |-> api]

NoCandidateError ==
    [type |-> "ImportError", text |-> "No OpenAI MCP runtime candidate imported", arg |-> ""]

CouldntRegisterError(name) ==
    [type |-> "RuntimeError", text |-> "Couldn't register tool", arg |-> name]

NoEntrypointError ==
    [type |-> "RuntimeError",
     text |-> "Imported an OpenAI MCP runtime but couldn't find a run/serve entrypoint",
     arg |-> ""]

\* One logged call into external code: the object called (the discovered host,
\* host-class instance number `inst`, or the fallback), the attribute called,
\* the arguments passed, the result, and the name of the tool whose loop
\* iteration made the call (NoArg outside the tool loops).
Call(on, inst, api, name, func, doc, ls, res, for) ==
    [on |-> on, inst |-> inst, api |-> api, name |-> name, func |-> func, doc |-> doc,
     ls |-> ls, res |-> res, for |-> for]

VARIABLES
    tools,        \* self._tools: the registry, in insertion order
    lifespan,     \* self._lifespan
    regs,         \* tool() registrations made so far
    latest,       \* history: per declared name, the callable handed to tool() last
    firstOrder,   \* history: the declared names, in the order of their first tool() call
    ret,          \* what the last tool()(f) or get_tools() call returned to its caller
    pc,           \* position of the run() call in progress
    ci,           \* index of the candidate being imported
    tried,        \* the imports attempted by this run(), in order, and whether each succeeded
    host,         \* runtime_server: what the discovered host exposes
    ti,           \* index of the tool being bound
    rt,           \* the local `rt`: number of the last host-class instance, 0 if unbound
    calls,        \* the calls this run() made into host / fallback code, in order
    exc,          \* the exception caught at line 180
    lastFailure,  \* the exception raised last, caught or not
    outcome,      \* how run() ended: "none", "returned", "raised"
    message,      \* the RuntimeError raised at line 200
    applied,      \* utils: the function that was applied, "none" before the call
    input,        \* utils: the arguments of the call
    output,       \* utils: what the call returned or raised
    args,         \* launch_stack: the command line and the executables found on disk
    mainAt,       \* launch_stack: position of main()
    server_proc,  \* launch_stack: the local server_proc and its child process
    tunnel_proc,  \* launch_stack: the local tunnel_proc and its child process
    launches,     \* launch_stack: the names launch_process was called with, in order
    polls,        \* launch_stack: iterations of the monitoring loop that went to sleep
    mainExc       \* launch_stack: the exception leaving main(), or pending in its finally

vars == <<tools, lifespan, regs, latest, firstOrder, ret, pc, ci, tried, host, ti, rt, calls, exc,
          lastFailure, outcome, message, applied, input, output, args, mainAt, server_proc,
          tunnel_proc, launches, polls, mainExc>>

\* The variables of the shim, which the utils functions never touch.
shimVars == <<tools, lifespan, regs, latest, firstOrder, ret, pc, ci, tried, host, ti, rt,
              calls, exc, lastFailure, outcome, message>>

\* The variables of the utils functions, which the shim never touches.
utilVars == <<applied, input, output>>

\* The variables of scripts/launch_stack.py, which the package never touches.
launchVars == <<args, mainAt, server_proc, tunnel_proc, launches, polls, mainExc>>

\* A local of main() that holds None: no child process stands behind it.
NoProcess == [spawned |-> FALSE, alive |-> FALSE, signalled |-> "none", waited |-> FALSE,
              killed |-> FALSE]

\* No exception is leaving main() nor pending in it.
NoException == [type |-> "none", message |-> "none"]

\* scripts/launch_stack.py is not being run.
StackIdle ==
    /\ args = [no_ngrok |-> FALSE, python_path |-> FALSE, mcp_path |-> FALSE,
               ngrok_path |-> FALSE]
    /\ mainAt = "idle"
    /\ server_proc = NoProcess
    /\ tunnel_proc = NoProcess
    /\ launches = <<>>
    /\ polls = 0
    /\ mainExc = NoException

runVars == <<pc, ci, tried, host, ti, rt, calls, exc, lastFailure, outcome, message>>

NoMessage == [tools |-> <<>>, error |-> NoError]

\* Nothing was returned yet by tool()(f) or get_tools().
NoReturn == [api |-> "none", arg |-> NoArg, func |-> NoArg, list |-> <<>>]

DeclaredNames == {FuncName(f) : f \in Funcs}

ShimInit ==
    /\ tools = <<>>
    /\ lifespan \in Lifespans
    /\ regs = 0
    /\ latest = [n \in DeclaredNames |-> NoArg]
    /\ firstOrder = <<>>
    /\ ret = NoReturn
    /\ pc = "idle"
    /\ ci = 0
    /\ tried = <<>>
    /\ host = NoHost
    /\ ti = 0
    /\ rt = 0
    /\ calls = <<>>
    /\ exc = NoError
    /\ lastFailure = NoError
    /\ outcome = "none"
    /\ message = NoMessage

Init ==
    /\ ShimInit
    /\ StackIdle
    /\ applied = "none"
    /\ input = <<>>
    /\ output = <<>>

\* ------------------------------------------------------------ the registry
\* A registry that keeps every registration as an entry of its own.
DictSet_AlwaysAppend(d, t) == Append(d, t)

\* A registry in which a name registered again moves to the end.
DictSet_MoveToEnd(d, t) == Append(SelectSeq(d, LAMBDA e : e.name # t.name), t)

\* self._tools[tool.name] = tool: a new key is appended, an existing key keeps
\* its position and gets the new value.
DictSet(d, t) ==
    IF \E i \in 1..Len(d) : d[i].name = t.name
    THEN [i \in 1..Len(d) |-> IF d[i].name = t.name THEN t ELSE d[i]]
    ELSE Append(d, t)

\* list(self._tools.values())
get_tools == tools

\* A decorator that registers the callable under its own name and hands back
\* a wrapper instead of the callable.
decorator_Wraps(d, func) == [registry |-> DictSet(d, Tool(func)), returned |-> "wrapper"]

\* The inner decorator(func) of tool(): the registry after
\* self._tools[tool.name] = tool, and the value of `return func`.
decorator(d, func) == [registry |-> DictSet(d, Tool(func)), returned |-> func]

\* mcp.tool()(f)
ToolDecorator(f) ==
    /\ pc = "idle"
    /\ regs < MaxRegs
    /\ tools' = decorator(tools, f).registry
    /\ ret' = [api |-> "tool", arg |-> f, func |-> decorator(tools, f).returned,
                list |-> <<>>]
    /\ regs' = regs + 1
    /\ latest' = [latest EXCEPT ![FuncName(f)] = f]
    /\ firstOrder' = IF latest[FuncName(f)] = NoArg THEN Append(firstOrder, FuncName(f))
                                                   ELSE firstOrder
    /\ UNCHANGED lifespan
    /\ UNCHANGED runVars
    /\ UNCHANGED <<utilVars, launchVars>>

\* mcp.get_tools()
GetTools ==
    /\ pc = "idle"
    /\ ret' = [api |-> "get_tools", arg |-> NoArg, func |-> NoArg, list |-> get_tools]
    /\ UNCHANGED <<tools, lifespan, regs, latest, firstOrder>>
    /\ UNCHANGED runVars
    /\ UNCHANGED <<utilVars, launchVars>>

\* ------------------------------------------------------------------ run()
\* What one import in the candidate loop can give: the import raises, the
\* module has no `server` attribute (the module is the host), it has one
\* (the attribute is the host), or the attribute is there and is None.
ImportResults == {"ImportError", "module", "server", "server_is_None"}

Names(ts) == [i \in 1..Len(ts) |-> ts[i].name]

\* mcp.run() is called.
RunBegin ==
    /\ pc = "idle"
    /\ pc' = "probe"
    /\ ci' = 1
    /\ ret' = NoReturn
    /\ UNCHANGED <<tools, lifespan, regs, latest, firstOrder, utilVars, launchVars, tried, host, ti, rt, calls, exc, lastFailure,
                   outcome, message>>

\* Where run() goes once the candidate loop has ended with runtime_server set:
\* the first tool's first strategy, or the entry point when no tool is registered.
BeginBind(n) == IF n = 0 THEN [pc |-> "start", ti |-> 0] ELSE [pc |-> "s1", ti |-> 1]

\* LoopContinues without the `break` that follows a successful import.
LoopContinues_NoBreak(r, i) == i < Len(Candidates)

\* Whether the candidate loop goes on after an import that ended `r`.
LoopContinues(r, i) == r = "ImportError" /\ i < Len(Candidates)

\* One iteration of the candidate loop, with the raise that follows the loop
\* when it ends with runtime_server None.
ImportCandidate ==
    /\ pc = "probe"
    /\ \E r \in ImportResults :
        /\ tried' = Append(tried, [cand |-> Candidates[ci], imported |-> r # "ImportError"])
        /\ IF LoopContinues(r, ci)
           THEN /\ ci' = ci + 1
                /\ lastFailure' = Raised("ImportError", "import")
                /\ UNCHANGED <<pc, host, ti, exc>>
           ELSE IF r \in {"ImportError", "server_is_None"}
           THEN /\ pc' = "fallback"
                /\ exc' = NoCandidateError
                /\ lastFailure' = NoCandidateError
                /\ UNCHANGED <<ci, host, ti>>
           ELSE /\ \E h \in HostShapes : host' = h
                /\ pc' = BeginBind(Len(get_tools)).pc
                /\ ti' = BeginBind(Len(get_tools)).ti
                /\ UNCHANGED <<ci, exc, lastFailure>>
    /\ UNCHANGED <<tools, lifespan, regs, latest, firstOrder, ret, utilVars, launchVars, rt, calls, outcome, message>>

\* The result of one strategy for one tool: the calls it made, whether it left
\* `registered` true, the exception it let escape (NoError if none), and the
\* exception raised last inside it, escaped or swallowed.
StrategyResult(log, registered, raised, last, newRt) ==
    [log |-> log, registered |-> registered, raised |-> raised, last |-> last, rt |-> newRt]

\* ViaRegisterTool with the description left out of the first call.
ViaRegisterTool_NoDescription(h, t, o1, o2) ==
    LET c1 == Call("host", 0, "register_tool", t.name, t.func, NoArg, NoArg, o1, t.name)
    IN  IF ~h.register_tool
        THEN StrategyResult(<<>>, FALSE, NoError, NoError, 0)
        ELSE IF o1 = "ok"
        THEN StrategyResult(<<c1>>, TRUE, NoError, NoError, 0)
        ELSE StrategyResult(<<c1>>, FALSE, Raised(o1, "register_tool"),
                            Raised(o1, "register_tool"), 0)

\* Strategy 1: register(name=, func=, description=), retried without the
\* description on TypeError; the retry is not guarded.
ViaRegisterTool(h, t, o1, o2) ==
    LET c1 == Call("host", 0, "register_tool", t.name, t.func, t.doc, NoArg, o1, t.name)
        c2 == Call("host", 0, "register_tool", t.name, t.func, NoArg, NoArg, o2, t.name)
    IN  IF ~h.register_tool
        THEN StrategyResult(<<>>, FALSE, NoError, NoError, 0)
        ELSE IF o1 = "ok"
        THEN StrategyResult(<<c1>>, TRUE, NoError, NoError, 0)
        ELSE IF o1 = "TypeError"
        THEN IF o2 = "ok"
             THEN StrategyResult(<<c1, c2>>, TRUE, NoError, Raised(o1, "register_tool"), 0)
             ELSE StrategyResult(<<c1, c2>>, FALSE, Raised(o2, "register_tool"),
                                 Raised(o2, "register_tool"), 0)
        ELSE StrategyResult(<<c1>>, FALSE, Raised(o1, "register_tool"),
                            Raised(o1, "register_tool"), 0)

\* ViaToolDecorator with the decorator made but never applied to the callable.
ViaToolDecorator_NotApplied(h, t, o1, o2) ==
    LET c1 == Call("host", 0, "tool", t.name, NoArg, t.doc, NoArg, o1, t.name)
    IN  IF ~h.tool
        THEN StrategyResult(<<>>, FALSE, NoError, NoError, 0)
        ELSE IF o1 = "ok"
        THEN StrategyResult(<<c1>>, TRUE, NoError, NoError, 0)
        ELSE StrategyResult(<<c1>>, FALSE, Raised(o1, "tool"), Raised(o1, "tool"), 0)

\* Strategy 2: tool(name=, description=)(func), retried as tool(name)(func) on
\* TypeError; any failure of the retry is swallowed.
ViaToolDecorator(h, t, o1, o2) ==
    LET c1 == Call("host", 0, "tool", t.name, t.func, t.doc, NoArg, o1, t.name)
        c2 == Call("host", 0, "tool", t.name, t.func, NoArg, NoArg, o2, t.name)
    IN  IF ~h.tool
        THEN StrategyResult(<<>>, FALSE, NoError, NoError, 0)
        ELSE IF o1 = "ok"
        THEN StrategyResult(<<c1>>, TRUE, NoError, NoError, 0)
        ELSE IF o1 = "TypeError"
        THEN IF o2 = "ok"
             THEN StrategyResult(<<c1, c2>>, TRUE, NoError, Raised(o1, "tool"), 0)
             ELSE StrategyResult(<<c1, c2>>, FALSE, NoError, Raised(o2, "tool"), 0)
        ELSE StrategyResult(<<c1>>, FALSE, Raised(o1, "tool"), Raised(o1, "tool"), 0)

\* getattr(runtime_server, "FastMCP", None) or getattr(runtime_server, "Server", None)
RuntimeFast(h) == IF h.FastMCP THEN "FastMCP" ELSE IF h.Server THEN "Server" ELSE NoArg

\* Strategy 3: rt = RuntimeFast(self.name, lifespan=self._lifespan);
\* rt.tool()(tool.func); every failure is swallowed. `k` is the number the new
\* instance gets, `old` the current value of rt. The raise of lines 158-160
\* follows when the tool is still not registered.
ViaHostClass(h, t, ls, oc, ot, k, old) ==
    LET cc == Call("inst", k, RuntimeFast(h), ShimName, NoArg, NoArg, ls, oc, t.name)
        ct == Call("inst", k, "tool", NoArg, t.func, NoArg, NoArg, ot, t.name)
        err == CouldntRegisterError(t.name)
    IN  IF RuntimeFast(h) = NoArg
        THEN StrategyResult(<<>>, FALSE, err, err, old)
        ELSE IF oc # "ok"
        THEN StrategyResult(<<cc>>, FALSE, err, err, old)
        ELSE IF ot # "ok"
        THEN StrategyResult(<<cc, ct>>, FALSE, err, err, k)
        ELSE StrategyResult(<<cc, ct>>, TRUE, NoError, NoError, k)

\* AfterStrategy with the entry point reached as soon as one tool is registered.
AfterStrategy_StartEarly(r, nextStage, i, n) ==
    IF r.raised # NoError THEN [pc |-> "fallback", ti |-> i]
    ELSE IF r.registered THEN [pc |-> "start", ti |-> i]
    ELSE [pc |-> nextStage, ti |-> i]

\* AfterStrategy with the `if not registered` guards dropped: a registered
\* tool is still offered to the strategies that follow.
AfterStrategy_NoStop(r, nextStage, i, n) ==
    IF r.raised # NoError THEN [pc |-> "fallback", ti |-> i]
    ELSE IF r.registered /\ nextStage = "s3"
    THEN IF i < n THEN [pc |-> "s1", ti |-> i + 1] ELSE [pc |-> "start", ti |-> i]
    ELSE [pc |-> nextStage, ti |-> i]

\* Where run() goes after a strategy at tool i of n: out to the handler when an
\* exception escaped, to the next tool (or the entry point) when the tool is
\* registered, else to the next strategy.
AfterStrategy(r, nextStage, i, n) ==
    IF r.raised # NoError THEN [pc |-> "fallback", ti |-> i]
    ELSE IF r.registered
    THEN IF i < n THEN [pc |-> "s1", ti |-> i + 1] ELSE [pc |-> "start", ti |-> i]
    ELSE [pc |-> nextStage, ti |-> i]

BindStep(r, nextStage) ==
    /\ calls' = calls \o r.log
    /\ lastFailure' = IF r.last = NoError THEN lastFailure ELSE r.last
    /\ exc' = r.raised
    /\ pc' = AfterStrategy(r, nextStage, ti, Len(get_tools)).pc
    /\ ti' = AfterStrategy(r, nextStage, ti, Len(get_tools)).ti
    /\ UNCHANGED <<tools, lifespan, regs, latest, firstOrder, ret, utilVars, launchVars, ci, tried, host, outcome, message>>

TryRegisterTool ==
    /\ pc = "s1"
    /\ \E o1 \in Outcomes, o2 \in AnyOutcomes :
         BindStep(ViaRegisterTool(host, get_tools[ti], o1, o2), "s2")
    /\ UNCHANGED rt

TryToolDecorator ==
    /\ pc = "s2"
    /\ \E o1 \in Outcomes, o2 \in AnyOutcomes :
         BindStep(ViaToolDecorator(host, get_tools[ti], o1, o2), "s3")
    /\ UNCHANGED rt

NumInstances == Cardinality({i \in 1..Len(calls) : calls[i].api \in {"FastMCP", "Server"}
                                                   /\ calls[i].on = "inst"
                                                   /\ calls[i].res = "ok"})

TryHostClass ==
    /\ pc = "s3"
    /\ \E oc, ot \in AnyOutcomes :
         LET r == ViaHostClass(host, get_tools[ti], lifespan, oc, ot, NumInstances + 1, rt)
         IN  /\ BindStep(r, "s3")
             /\ rt' = r.rt

\* getattr(runtime_server, "run", None) or getattr(runtime_server, "serve", None)
RunFn(h) == IF h.run THEN "run" ELSE IF h.serve THEN "serve" ELSE NoArg

\* 'rt' in locals() and hasattr(rt, "run")
InstRun(h, r) == r # 0 /\ h.instRun

\* The entry point run() invokes once the tool loop has ended: the call it
\* makes (with result o), or no call at all.
EntryCall(h, r, o) ==
    IF RunFn(h) # NoArg
    THEN <<Call("host", 0, RunFn(h), NoArg, NoArg, NoArg, NoArg, o, NoArg)>>
    ELSE IF InstRun(h, r)
    THEN <<Call("inst", r, "run", NoArg, NoArg, NoArg, NoArg, o, NoArg)>>
    ELSE <<>>

\* Lines 162-179: invoke the entry point and return, or raise.
StartHost ==
    /\ pc = "start"
    /\ \E o \in AnyOutcomes :
        LET e == EntryCall(host, rt, o) IN
        /\ calls' = calls \o e
        /\ IF e = <<>>
           THEN /\ pc' = "fallback"
                /\ exc' = NoEntrypointError
                /\ lastFailure' = NoEntrypointError
                /\ UNCHANGED outcome
           ELSE IF o = "ok"
           THEN /\ pc' = "done"
                /\ outcome' = "returned"
                /\ UNCHANGED <<exc, lastFailure>>
           ELSE /\ pc' = "fallback"
                /\ exc' = Raised(o, e[1].api)
                /\ lastFailure' = Raised(o, e[1].api)
                /\ UNCHANGED outcome
    /\ UNCHANGED <<tools, lifespan, regs, latest, firstOrder, ret, utilVars, launchVars, ci, tried, host, ti, rt, message>>

\* FinalError without the list of tool names.
FinalError_NoTools(ts, e) == [tools |-> <<>>, error |-> e]

\* Line 182 and lines 200-203: the error run() raises when the fallback fails.
FinalError(ts, e) == [tools |-> Names(ts), error |-> e]

\* The fallback failed with `err`: run() raises.
FallbackFails(err) ==
    /\ pc' = "done"
    /\ outcome' = "raised"
    /\ message' = FinalError(get_tools, exc)
    /\ lastFailure' = err
    /\ UNCHANGED ti

\* from mcp.server.fastmcp import FastMCP as RealFastMCP
\* real = RealFastMCP(self.name, lifespan=self._lifespan)
FallbackConstruct ==
    /\ pc = "fallback"
    /\ \E o \in AnyOutcomes \cup {"ImportError"} :
        LET api == IF o = "ImportError" THEN "import" ELSE "RealFastMCP"
            ls == IF o = "ImportError" THEN NoArg ELSE lifespan
        IN  /\ calls' = Append(calls, Call("fallback", 0, api, ShimName, NoArg, NoArg, ls, o, NoArg))
            /\ IF o = "ok"
               THEN /\ pc' = IF Len(get_tools) = 0 THEN "fbrun" ELSE "fbreg"
                    /\ ti' = IF Len(get_tools) = 0 THEN 0 ELSE 1
                    /\ UNCHANGED <<outcome, message, lastFailure>>
               ELSE FallbackFails(Raised(o, api))
    /\ UNCHANGED <<tools, lifespan, regs, latest, firstOrder, ret, utilVars, launchVars, ci, tried, host, rt, exc>>

\* AfterFallbackRegister with the loop left after its first iteration.
AfterFallbackRegister_RunEarly(i, n) == [pc |-> "fbrun", ti |-> i]

\* Where run() goes after the fallback has taken tool i of n: the loop of
\* lines 191-193 goes on, or real.run() is next.
AfterFallbackRegister(i, n) ==
    IF i < n THEN [pc |-> "fbreg", ti |-> i + 1] ELSE [pc |-> "fbrun", ti |-> i]

\* real.tool()(tool.func), for the tool at ti
FallbackRegister ==
    /\ pc = "fbreg"
    /\ \E o \in AnyOutcomes :
        /\ calls' = Append(calls, Call("fallback", 0, "tool", NoArg, get_tools[ti].func,
                                       NoArg, NoArg, o, get_tools[ti].name))
        /\ IF o = "ok"
           THEN /\ pc' = AfterFallbackRegister(ti, Len(get_tools)).pc
                /\ ti' = AfterFallbackRegister(ti, Len(get_tools)).ti
                /\ UNCHANGED <<outcome, message, lastFailure>>
           ELSE FallbackFails(Raised(o, "tool"))
    /\ UNCHANGED <<tools, lifespan, regs, latest, firstOrder, ret, utilVars, launchVars, ci, tried, host, rt, exc>>

\* real.run(); return
FallbackRun ==
    /\ pc = "fbrun"
    /\ \E o \in AnyOutcomes :
        /\ calls' = Append(calls, Call("fallback", 0, "run", NoArg, NoArg, NoArg, NoArg, o, NoArg))
        /\ IF o = "ok"
           THEN /\ pc' = "done"
                /\ outcome' = "returned"
                /\ UNCHANGED <<message, lastFailure, ti>>
           ELSE FallbackFails(Raised(o, "run"))
    /\ UNCHANGED <<tools, lifespan, regs, latest, firstOrder, ret, utilVars, launchVars, ci, tried, host, rt, exc>>

\* run() has returned or raised: control is back with the caller, and the
\* locals of the call are gone.
RunEnd ==
    /\ pc = "done"
    /\ pc' = "idle"
    /\ ci' = 0
    /\ tried' = <<>>
    /\ host' = NoHost
    /\ ti' = 0
    /\ rt' = 0
    /\ calls' = <<>>
    /\ exc' = NoError
    /\ lastFailure' = NoError
    /\ outcome' = "none"
    /\ message' = NoMessage
    /\ UNCHANGED <<tools, lifespan, regs, latest, firstOrder, ret, utilVars, launchVars>>

Next ==
    \/ \E f \in Funcs : ToolDecorator(f)
    \/ GetTools
    \/ RunBegin
    \/ ImportCandidate
    \/ TryRegisterTool
    \/ TryToolDecorator
    \/ TryHostClass
    \/ StartHost
    \/ FallbackConstruct
    \/ FallbackRegister
    \/ FallbackRun
    \/ RunEnd

Spec == Init /\ [][Next]_vars

\* ------------------------------------------------------------ the claims
\* The calls run() made while binding the tool named n to the discovered host.
BindingCalls(n) ==
    {i \in 1..Len(calls) : calls[i].for = n /\ calls[i].on # "fallback"}

\* The strategy a binding call belongs to.
Rank(c) == IF c.on = "inst" THEN 3 ELSE IF c.api = "tool" THEN 2 ELSE 1

\* A call that hands a callable to the object called.
IsRegistration(c) == c.func # NoArg

\* C1: for each tool the strategies are attempted on the discovered host in the
\* order register_tool, tool decorator, host class; a registration that succeeds
\* is the last binding call made for that tool; and a host that exposes both
\* register_tool and tool never has its tool attribute called.
C1_StrategyOrder ==
    /\ \A k \in 1..Len(tools) :
        \A i, j \in BindingCalls(tools[k].name) :
            i < j => /\ Rank(calls[i]) <= Rank(calls[j])
                     /\ ~(IsRegistration(calls[i]) /\ calls[i].res = "ok")
    /\ (host.register_tool /\ host.tool) =>
            \A i \in 1..Len(calls) : ~(calls[i].on = "host" /\ calls[i].api = "tool")

\* C1 witness: run() has returned through a host with two tools bound, one of
\* them by the host class after both decorator calls failed for it.
C1_Witness ==
    /\ pc = "done" /\ outcome = "returned" /\ Len(tools) = 2
    /\ \A i \in 1..Len(calls) : calls[i].on # "fallback"
    /\ \E i, j, k \in 1..Len(calls) :
        /\ i < j /\ j < k
        /\ calls[i].for = calls[k].for /\ calls[j].for = calls[k].for
        /\ calls[i].on = "host" /\ calls[i].api = "tool" /\ calls[i].res = "TypeError"
        /\ calls[j].on = "host" /\ calls[j].api = "tool" /\ calls[j].res = "Exception"
        /\ calls[k].on = "inst" /\ calls[k].api = "tool" /\ calls[k].res = "ok"

\* The exceptions a host's registration call lets escape.
RegistrationErrors == {Raised(o, a) : o \in {"TypeError", "Exception"},
                                      a \in {"register_tool", "tool"}}

\* Strategy k of the discovered host was attempted for the tool named n and
\* failed.
StrategyFailed(n, k) ==
    \E i \in BindingCalls(n) : Rank(calls[i]) = k /\ calls[i].res # "ok"

\* C2: an error of one strategy (of register_tool, of tool, or of a
\* reduced-arity retry) only moves run() to the next strategy for the tool:
\* whenever the binding of a tool has ended in failure, every strategy the
\* host offers had been attempted for that tool and had failed.
C2_FailureAdvances ==
    (exc \in RegistrationErrors \/ exc.text = "Couldn't register tool") =>
        LET n == tools[ti].name IN
        /\ host.register_tool => StrategyFailed(n, 1)
        /\ host.tool => StrategyFailed(n, 2)
        /\ RuntimeFast(host) # NoArg => StrategyFailed(n, 3)

\* The fallback stages of run().
InFallback == pc \in {"fallback", "fbreg", "fbrun"} \/ outcome = "raised"
                \/ \E i \in 1..Len(calls) : calls[i].on = "fallback"

FallbackCalls == SelectSeq(calls, LAMBDA c : c.on = "fallback")

\* The calls the fallback path makes when none of them fails.
FallbackPlan(ts, ls) ==
    <<[api |-> "RealFastMCP", name |-> ShimName, func |-> NoArg, ls |-> ls]>>
    \o [i \in 1..Len(ts) |-> [api |-> "tool", name |-> NoArg, func |-> ts[i].func, ls |-> NoArg]]
    \o <<[api |-> "run", name |-> NoArg, func |-> NoArg, ls |-> NoArg]>>

C5_LastFailureText ==
    outcome = "raised" => (message.tools = Names(tools) /\ message.error = lastFailure)

\* C5 amended: when the fallback fails too, run() raises one error that
\* carries the name of every registered tool and the text of the exception
\* that ended host probing (not of the fallback's failure, which came last);
\* a failed fallback never lets run() return normally.
C5_OriginalErrorText ==
    LET fb == FallbackCalls IN
    /\ outcome = "raised" =>
        /\ pc = "done"
        /\ message.tools = Names(tools)
        /\ message.error = exc /\ exc # NoError
        /\ fb # <<>> /\ fb[Len(fb)].res # "ok"
        /\ lastFailure = Raised(fb[Len(fb)].res, fb[Len(fb)].api)
    /\ (fb # <<>> /\ fb[Len(fb)].res # "ok") => (pc = "done" /\ outcome = "raised")
    /\ outcome # "raised" => message = NoMessage

\* C5 witness: no strategy could bind the second of two tools, and then the
\* fallback's run raised.
C5_Witness ==
    /\ outcome = "raised" /\ Len(tools) = 2
    /\ exc = CouldntRegisterError(tools[2].name)
    /\ lastFailure = Raised("Exception", "run")

\* Every call made on the discovered host (or on an instance of its class)
\* returned normally.
HostCooperates == \A i \in 1..Len(calls) : calls[i].on # "fallback" => calls[i].res = "ok"

\* p is a prefix of q.
IsPrefix(p, q) == Len(p) <= Len(q) /\ \A i \in 1..Len(p) : p[i] = q[i]

\* A host that exposes register_tool and run and nothing else.
OnlyRegisterTool(h) ==
    h.register_tool /\ h.run /\ ~h.tool /\ ~h.FastMCP /\ ~h.Server /\ ~h.serve /\ ~h.instRun

\* A host that exposes tool and run and nothing else.
OnlyToolDecorator(h) ==
    h.tool /\ h.run /\ ~h.register_tool /\ ~h.FastMCP /\ ~h.Server /\ ~h.serve /\ ~h.instRun

HostReceived ==
    LET ok == SelectSeq(calls, LAMBDA c : c.on = "host" /\ c.api \in {"register_tool", "tool"}
                                           /\ c.res = "ok")
    IN  [i \in 1..Len(ok) |-> [name |-> ok[i].name, func |-> ok[i].func]]

\* The registry as (name, callable) pairs.
Registered == [i \in 1..Len(tools) |-> [name |-> tools[i].name, func |-> tools[i].func]]

\* C7: on a host exposing only tool(name, description) and run, whose calls
\* return normally, every tool is bound through the decorator, and what the host
\* ends up with is what the register_tool path gives a host exposing only
\* register_tool: each registered callable once, under its tool's name, in
\* registry order, and then the host's run is invoked and run() returns.
C7_DecoratorSameOutcome ==
    ((OnlyToolDecorator(host) \/ OnlyRegisterTool(host)) /\ HostCooperates) =>
        /\ IsPrefix(HostReceived, Registered)
        /\ \A i \in 1..Len(calls) :
              /\ calls[i].on = "host"
              /\ calls[i].api \in {IF host.tool THEN "tool" ELSE "register_tool", "run"}
              /\ calls[i].api = "run" => (i = Len(calls) /\ HostReceived = Registered)
        /\ pc = "done" =>
              /\ HostReceived = Registered
              /\ calls[Len(calls)].api = "run"
              /\ outcome = "returned"

\* C7 witness: run() has returned through a host exposing only tool and run,
\* with two tools.
C7_Witness ==
    /\ OnlyToolDecorator(host) /\ HostCooperates
    /\ pc = "done" /\ Len(tools) = 2 /\ Len(calls) = 3

\* The tool named n has been bound to the discovered host before call e.
BoundBefore(n, e) ==
    \E i \in 1..(e - 1) :
        /\ calls[i].for = n /\ calls[i].on # "fallback"
        /\ IsRegistration(calls[i]) /\ calls[i].res = "ok"

\* The calls of an entry point of the discovered host.
HostEntryCalls ==
    {i \in 1..Len(calls) : calls[i].on # "fallback" /\ calls[i].api \in {"run", "serve"}}

\* C8: an entry point of the discovered host is invoked only after every
\* registered tool has been bound to that host, and it is the host's run, else
\* its serve, else the run of the host-class instance; when all tools are bound
\* and there is no such entry point, the attempt fails: run() returns normally
\* only after an entry point (of the host or of the fallback) returned.
C8_StartAfterBinding ==
    /\ \A e \in HostEntryCalls :
        /\ \A k \in 1..Len(tools) : BoundBefore(tools[k].name, e)
        /\ calls[e].api = (IF host.run THEN "run" ELSE IF host.serve THEN "serve" ELSE "run")
        /\ calls[e].on = (IF host.run \/ host.serve THEN "host" ELSE "inst")
        /\ calls[e].on = "inst" => (calls[e].inst = rt /\ rt # 0 /\ host.instRun)
    /\ exc = NoEntrypointError =>
        /\ HostEntryCalls = {}
        /\ \A k \in 1..Len(tools) : BoundBefore(tools[k].name, Len(calls) + 1)
        /\ ~host.run /\ ~host.serve /\ ~(rt # 0 /\ host.instRun)
    /\ outcome = "returned" =>
        /\ calls # <<>>
        /\ calls[Len(calls)].api \in {"run", "serve"} /\ calls[Len(calls)].res = "ok"
        /\ exc = NoEntrypointError => calls[Len(calls)].on = "fallback"

\* C8 witness: a host without run or serve; two tools were bound through its
\* class, and the run of the instance was invoked.
C8_Witness ==
    /\ pc = "done" /\ outcome = "returned" /\ Len(tools) = 2
    /\ ~host.run /\ ~host.serve
    /\ calls[Len(calls)].on = "inst"

\* The number of registration calls that gave the callable of the tool named
\* n to the objects `ons` and returned normally.
TimesBound(n, ons) ==
    Cardinality({i \in 1..Len(calls) : /\ calls[i].for = n /\ calls[i].on \in ons
                                       /\ IsRegistration(calls[i]) /\ calls[i].res = "ok"})

\* C9 as stated: no tool is registered both with the discovered host and with
\* the fallback host.
C9_ExactlyOneRuntime ==
    \A k \in 1..Len(tools) :
        ~(TimesBound(tools[k].name, {"host", "inst"}) > 0
            /\ TimesBound(tools[k].name, {"fallback"}) > 0)

\* C9 amended: a tool is bound at most once to the discovered host and at most
\* once to the fallback; it is bound to both exactly when host probing failed
\* after the tool had been bound to the discovered host and the fallback then
\* took it again; without such a failure the fallback gets no tool.
C9_AtMostOncePerRuntime ==
    \A k \in 1..Len(tools) :
        /\ TimesBound(tools[k].name, {"host", "inst"}) <= 1
        /\ TimesBound(tools[k].name, {"fallback"}) <= 1
        /\ TimesBound(tools[k].name, {"fallback"}) > 0 => exc # NoError
        /\ (outcome = "returned" /\ exc = NoError) =>
              TimesBound(tools[k].name, {"host", "inst"}) = 1
        /\ (outcome = "returned" /\ exc # NoError) =>
              TimesBound(tools[k].name, {"fallback"}) = 1

\* C9 witness: the first tool was bound to the discovered host, the second
\* could not be, and the fallback has taken the first tool again.
C9_Witness ==
    /\ Len(tools) = 2
    /\ exc = CouldntRegisterError(tools[2].name)
    /\ TimesBound(tools[1].name, {"host", "inst"}) = 1
    /\ TimesBound(tools[1].name, {"fallback"}) = 1

\* The runtime a call was made on was constructed with the shim's lifespan.
HandedLifespan(c) ==
    \E i \in 1..Len(calls) :
        /\ calls[i].on = c.on /\ calls[i].inst = c.inst
        /\ calls[i].api \in {"FastMCP", "Server", "RealFastMCP"}
        /\ calls[i].res = "ok" /\ calls[i].ls = lifespan

\* C10: with a lifespan supplied, every runtime run() starts has the hook
\* around its lifetime. run() has no call of _call_lifespan, so the hook can
\* reach a runtime only by being handed to it at construction.
C10_LifespanBrackets ==
    lifespan # NoLifespan =>
        \A i \in 1..Len(calls) :
            (calls[i].api \in {"run", "serve"} /\ calls[i].res = "ok") => HandedLifespan(calls[i])

\* ------------------------------------------------- the registry, observed
\* C11: mcp.tool()(f) returns f itself, and immediately afterwards the
\* registry holds, under f's declared name, one Tool whose callable is f and
\* whose description is f's docstring, the empty string when f has none.
C11_ToolReturnsCallable ==
    ret.api = "tool" =>
        LET f == ret.arg
            held == SelectSeq(tools, LAMBDA t : t.name = FuncName(f))
        IN  /\ ret.func = f
            /\ Len(held) = 1
            /\ held[1].func = f
            /\ held[1].doc = (IF FuncRawDoc(f) = NoDoc THEN "" ELSE FuncRawDoc(f))

\* tool() was just applied to f2, which has no docstring, after f1 had taken
\* the same name.
C11_Witness ==
    /\ ret.api = "tool" /\ ret.arg = "f2" /\ regs = 2
    /\ tools = <<[func |-> "f2", name |-> "alpha", doc |-> ""]>>

\* The names that were registered at least once.
EverRegistered == {n \in DeclaredNames : latest[n] # NoArg}

\* One entry per name ever registered, holding the latest callable.
OneEntryPerName ==
    /\ \A n \in EverRegistered :
            Cardinality({k \in 1..Len(tools) : tools[k].name = n}) = 1
    /\ \A k \in 1..Len(tools) :
            /\ tools[k].name \in EverRegistered
            /\ tools[k].func = latest[tools[k].name]

\* A step removes no entry, and changes the registry only if it is a tool() call.
RegistryStep ==
    /\ \A k \in 1..Len(tools) : \E m \in 1..Len(tools') : tools'[m].name = tools[k].name
    /\ regs' = regs => tools' = tools

\* C12: after any sequence of tool(), get_tools() and run() calls the registry
\* holds exactly one entry per distinct name ever registered, the entry holds
\* the callable registered last under that name, and no entry is ever removed:
\* get_tools() and run(), returning or raising, leave the registry as it was.
C12_RegistryKeepsLatest == []OneEntryPerName /\ [][RegistryStep]_vars

\* A run() that raised after one name had been registered twice and another once.
C12_Witness ==
    /\ pc = "done" /\ outcome = "raised"
    /\ regs = 3 /\ Len(tools) = 2
    /\ tools[1].func = "f2" /\ tools[2].func = "f3"

\* A sequence without its repetitions, each element at its first position.
RECURSIVE FirstOccurrences(_)
FirstOccurrences(s) ==
    IF s = <<>> THEN <<>>
    ELSE LET r == FirstOccurrences(SubSeq(s, 1, Len(s) - 1))
             x == s[Len(s)]
         IN  IF \E i \in 1..Len(r) : r[i] = x THEN r ELSE Append(r, x)

\* The tool names in the order run() handed their callables to the objects `ons`.
BindOrder(ons) ==
    LET regCalls == SelectSeq(calls, LAMBDA c : IsRegistration(c) /\ c.on \in ons)
    IN  FirstOccurrences([i \in 1..Len(regCalls) |-> regCalls[i].for])

\* C13: get_tools() returns every registered tool exactly once, in an order
\* that the registration sequence alone determines (each name at the place of
\* its first registration), so that a repeated call without a registration in
\* between returns the same sequence; run() binds the tools to the discovered
\* host, and to the fallback host, in that order.
C13_ListingOrder ==
    /\ Names(get_tools) = firstOrder
    /\ ret.api = "get_tools" => ret.list = tools /\ Names(ret.list) = firstOrder
    /\ IsPrefix(BindOrder({"host", "inst"}), firstOrder)
    /\ IsPrefix(BindOrder({"fallback"}), firstOrder)

\* get_tools() listed two tools, the first of which had been registered again
\* after the second.
C13_Witness ==
    /\ ret.api = "get_tools" /\ regs = 3
    /\ Names(ret.list) = <<"alpha", "beta">>
    /\ ret.list[1].func = "f2"

\* ======================================================= utils/formatting
\* ------------------------------------------------------------------ bounds
\* Number of fields of a payload handed to _detect_custom_fields.
MaxFields == 2

\* --------------------------------------------------------- str and values
\* A str is the sequence of its characters. The characters that occur, in
\* code point order: str comparison, and so sorted(), goes by code point.
CodePoints ==
    <<" ", "+", "-", ".", "/", "0", "1", "2", "3", "4", "5", "6", "7", "8", "9", ":",
      "A", "B", "C", "D", "E", "F", "G", "H", "I", "J", "K", "L", "M",
      "N", "O", "P", "Q", "R", "S", "T", "U", "V", "W", "X", "Y", "Z", "_",
      "a", "b", "c", "d", "e", "f", "g", "h", "i", "j", "k", "l", "m",
      "n", "o", "p", "q", "r", "s", "t", "u", "v", "w", "x", "y", "z">>

\* The str with the characters of the TLA+ string s.
Chars(s) == [i \in 1..Len(s) |-> SubSeq(s, i, i)]

ord(c) == CHOOSE i \in 1..Len(CodePoints) : CodePoints[i] = c

Lowercase == {CodePoints[i] : i \in 44..69}
Uppercase == {CodePoints[i] : i \in 17..42}

\* c.islower() and c.isupper() of a one-character str
islower(c) == c \in Lowercase
isupper(c) == c \in Uppercase

\* c.upper() of a one-character str
upper(c) == IF c \in Lowercase THEN CodePoints[ord(c) - 27] ELSE c

\* The values a decoded JSON payload holds. n is the number of an int and the
\* truth value of a bool, s the characters of a str, items the elements of a
\* list and the (key, value) pairs of a dict in insertion order.
PyNone == [t |-> "NoneType", n |-> 0, s |-> <<>>, items |-> <<>>]
PyBool(b) == [t |-> "bool", n |-> IF b THEN 1 ELSE 0, s |-> <<>>, items |-> <<>>]
PyInt(n) == [t |-> "int", n |-> n, s |-> <<>>, items |-> <<>>]
PyStr(s) == [t |-> "str", n |-> 0, s |-> s, items |-> <<>>]
PyList(items) == [t |-> "list", n |-> 0, s |-> <<>>, items |-> items]
PyDict(items) == [t |-> "dict", n |-> 0, s |-> <<>>, items |-> items]

\* One (key, value) pair of a dict.
Item(k, v) == [k |-> k, v |-> v]

\* key in d, for the pairs d of a dict
HasKey(d, key) == \E i \in 1..Len(d) : d[i].k = key

\* d.get(key, default), for the pairs d of a dict
Get(d, key, default) ==
    IF HasKey(d, key) THEN d[CHOOSE i \in 1..Len(d) : d[i].k = key].v ELSE default

\* ---------------------------------------------------- custom-field detection
\* A test that looks for an uppercase character only.
_is_camelcase_AnyUpper(field_name) == \E i \in 1..Len(field_name) : isupper(field_name[i])

\* _is_camelcase(field_name)
_is_camelcase(field_name) ==
    IF field_name = <<>> THEN FALSE
    ELSE islower(field_name[1]) /\ \E i \in 1..Len(field_name) : isupper(field_name[i])

\* _detect_custom_fields(data, known_fields): the pairs of the new dict
_detect_custom_fields(data, known_fields) ==
    SelectSeq(data, LAMBDA e : e.k \notin known_fields /\ _is_camelcase(e.k))

_KNOWN_ACTIVITY_FIELDS ==
    {Chars(k) : k \in {
        "name", "id", "type", "startTime", "start_date", "description", "distance",
        "duration", "elapsed_time", "moving_time", "elevationGain", "total_elevation_gain",
        "total_elevation_loss", "perceived_exertion", "icu_rpe", "feel", "avgPower",
        "icu_average_watts", "average_watts", "icu_weighted_avg_watts", "trainingLoad",
        "icu_training_load", "icu_ftp", "icu_joules", "icu_intensity", "icu_power_hr",
        "icu_variability_index", "avgHr", "average_heartrate", "max_heartrate", "lthr",
        "icu_resting_hr", "decoupling", "average_cadence", "calories", "average_speed",
        "max_speed", "average_stride", "avg_lr_balance", "icu_weight", "session_rpe",
        "trainer", "average_temp", "min_temp", "max_temp", "average_wind_speed",
        "headwind_percent", "tailwind_percent", "icu_ctl", "icu_atl", "trimp",
        "polarization_index", "power_load", "hr_load", "pace_load",
        "icu_efficiency_factor", "device_name", "power_meter", "file_type"}}

_KNOWN_WELLNESS_FIELDS ==
    {Chars(k) : k \in {
        "id", "date", "ctl", "atl", "rampRate", "ctlLoad", "atlLoad", "sportInfo",
        "updated", "weight", "restingHR", "hrv", "hrvSDNN", "avgSleepingHR", "spO2",
        "systolic", "diastolic", "respiration", "bloodGlucose", "lactate", "vo2max",
        "bodyFat", "abdomen", "baevskySI", "sleepSecs", "sleepHours", "sleepQuality",
        "sleepScore", "readiness", "menstrualPhase", "menstrualPhasePredicted", "soreness",
        "fatigue", "stress", "mood", "motivation", "injury", "kcalConsumed",
        "hydrationVolume", "hydration", "steps", "comments", "locked"}}

\* Field names handed to the detection: the names of tests/test_formatting.py
\* and names with a digit, an underscore or an uppercase letter in front.
DetectKeys ==
    {Chars("customField"), Chars("myCustomMetric"), Chars("avgPower"), Chars("restingHR"),
     Chars("custom_field"), Chars("CustomField"), Chars("customfield"), <<>>,
     Chars("name"), Chars("id"), <<"x">>, <<"X">>, Chars("aB"), Chars("a1B"), Chars("1aB"), Chars("_aB")}

DetectValues == {PyNone, PyInt(1)}

\* The dicts of at most n pairs with distinct keys from K and values from V.
RECURSIVE Dicts(_, _, _)
Dicts(K, V, n) ==
    IF n = 0 THEN {<<>>}
    ELSE LET shorter == Dicts(K, V, n - 1)
         IN  shorter \cup {Append(d, Item(k, v)) :
                               d \in {e \in shorter : Len(e) = n - 1}, k \in K, v \in V}

DistinctKeys(d) == \A i, j \in 1..Len(d) : d[i].k = d[j].k => i = j

DetectInputs ==
    {[data |-> d, known_fields |-> K] :
        d \in {e \in Dicts(DetectKeys, DetectValues, MaxFields) : DistinctKeys(e)},
        K \in {{}, _KNOWN_ACTIVITY_FIELDS, _KNOWN_WELLNESS_FIELDS}}

DetectInit ==
    /\ ShimInit
    /\ StackIdle
    /\ applied = "none"
    /\ input \in DetectInputs
    /\ output = <<>>

\* _detect_custom_fields(data, known_fields) is called.
ApplyDetect ==
    /\ applied = "none"
    /\ applied' = "_detect_custom_fields"
    /\ output' = _detect_custom_fields(input.data, input.known_fields)
    /\ UNCHANGED input
    /\ UNCHANGED <<shimVars, launchVars>>

DetectNext == ApplyDetect

DetectSpec == DetectInit /\ [][DetectNext]_vars

\* camelCase as the claim words it: non-empty, a lowercase letter first, an
\* uppercase character somewhere after it.
CamelCaseAsClaimed(k) ==
    /\ Len(k) > 0
    /\ k[1] \in Lowercase
    /\ \E i \in 2..Len(k) : k[i] \in Uppercase

\* The result is the restriction of the payload to its camelCase keys outside K.
DetectIsRestriction ==
    applied = "_detect_custom_fields" =>
        LET p == input.data
            K == input.known_fields
        IN  /\ \A i \in 1..Len(p) :
                    (p[i].k \notin K /\ CamelCaseAsClaimed(p[i].k))
                        <=> (\E j \in 1..Len(output) : output[j] = p[i])
            /\ \A j \in 1..Len(output) : \E i \in 1..Len(p) : p[i] = output[j]
            /\ DistinctKeys(output)
            /\ (\A i \in 1..Len(p) : CamelCaseAsClaimed(p[i].k) => p[i].k \in K)
                    => output = <<>>

\* C17: _detect_custom_fields(p, K) is exactly the restriction of p to the
\* keys that are not in K and are camelCase (non-empty, first character a
\* lowercase letter, a later character uppercase); every value, null included,
\* is kept; p is not modified; and the result is empty when every camelCase
\* key of p is in K.
C17_DetectIsRestriction == []DetectIsRestriction /\ [][input' = input]_vars

\* Of two fields one, holding null, was detected and the other, a known
\* camelCase field, was not.
C17_Witness ==
    /\ applied = "_detect_custom_fields"
    /\ input.data = <<Item(Chars("avgPower"), PyInt(1)), Item(Chars("customField"), PyNone)>>
    /\ input.known_fields = _KNOWN_ACTIVITY_FIELDS
    /\ output = <<Item(Chars("customField"), PyNone)>>

\* ---------------------------------------------------- custom-field rendering
\* Number of fields of a dict handed to _format_custom_fields.
MaxCustom == 3

\* What a call gave: the value returned, or the exception that left it.
Return(v) == [raised |-> "none", value |-> v]
Raise(type) == [raised |-> type, value |-> <<>>]

\* One piece of an f-string: literal text, then the text put in for a field.
Seg(lit, sub) == [lit |-> lit, sub |-> sub]

\* s < t for two str
RECURSIVE StrLess(_, _)
StrLess(s, t) ==
    IF t = <<>> THEN FALSE
    ELSE IF s = <<>> THEN TRUE
    ELSE IF s[1] = t[1] THEN StrLess(Tail(s), Tail(t))
    ELSE ord(s[1]) < ord(t[1])

\* The items as they were inserted.
sorted_AsInserted(d) == d

\* sorted(d.items()), for a dict with str keys
RECURSIVE sorted(_)
sorted(d) ==
    IF d = <<>> THEN <<>>
    ELSE LET m == CHOOSE i \in 1..Len(d) : \A j \in 1..Len(d) : ~StrLess(d[j].k, d[i].k)
         IN  <<d[m]>> \o sorted([i \in 1..(Len(d) - 1) |-> IF i < m THEN d[i] ELSE d[i + 1]])

\* re.sub(r"([a-z])([A-Z])", r"\1 \2", key), scanning from position i
RECURSIVE re_sub(_, _)
re_sub(key, i) ==
    IF i > Len(key) THEN <<>>
    ELSE IF i < Len(key) /\ islower(key[i]) /\ isupper(key[i + 1])
         THEN <<key[i], " ", key[i + 1]>> \o re_sub(key, i + 2)
         ELSE <<key[i]>> \o re_sub(key, i + 1)

\* The decimal digits of a natural number.
RECURSIVE Digits(_)
Digits(n) ==
    IF n < 10 THEN <<CodePoints[n + 6]>> ELSE Digits(n \div 10) \o <<CodePoints[(n % 10) + 6]>>

\* sep.join(parts)
RECURSIVE join(_, _)
join(sep, parts) ==
    IF parts = <<>> THEN <<>>
    ELSE IF Len(parts) = 1 THEN parts[1]
    ELSE parts[1] \o sep \o join(sep, Tail(parts))

\* repr(value)
RECURSIVE repr(_)
repr(value) ==
    CASE value.t = "NoneType" -> Chars("None")
      [] value.t = "bool" -> IF value.n = 1 THEN Chars("True") ELSE Chars("False")
      [] value.t = "int" -> IF value.n < 0 THEN <<"-">> \o Digits(0 - value.n) ELSE Digits(value.n)
      [] value.t = "str" -> <<"'">> \o value.s \o <<"'">>
      [] value.t = "list" ->
            <<"[">> \o join(Chars(", "), [i \in 1..Len(value.items) |-> repr(value.items[i])]) \o <<"]">>
      [] value.t = "dict" ->
            <<"{">> \o join(Chars(", "), [i \in 1..Len(value.items) |->
                                       repr(PyStr(value.items[i].k)) \o Chars(": ")
                                           \o repr(value.items[i].v)]) \o <<"}">>

\* str(value), which is also what an f-string puts in for {value}
str(value) == IF value.t = "str" THEN value.s ELSE repr(value)

\* Raised by s[0] on the empty str.
IndexError == <<"<IndexError>">>

\* s[0].upper() + s[1:]
Capitalize(s) == IF s = <<>> THEN IndexError ELSE <<upper(s[1])>> \o Tail(s)

\* The formatted_key of one field (lines 63-72).
formatted_key(key) ==
    LET subbed == re_sub(key, 1)
    IN  IF subbed # <<>> /\ Len(subbed) > 0 THEN Capitalize(subbed)
        ELSE IF key # <<>> /\ Len(key) > 0 THEN Capitalize(key)
        ELSE IF key # <<>> THEN key ELSE Chars("Unknown")

\* The formatted_value of one field (lines 75-87).
formatted_value(value) == IF value.t = "NoneType" THEN Chars("N/A") ELSE str(value)

\* _format_custom_fields(custom_fields)
_format_custom_fields(custom_fields) ==
    IF custom_fields = <<>> THEN Return(<<>>)
    ELSE LET items == sorted(custom_fields)
         IN  IF \E i \in 1..Len(items) : formatted_key(items[i].k) = IndexError
             THEN Raise("IndexError")
             ELSE Return([i \in 1..Len(items) |->
                            <<Seg("- ", formatted_key(items[i].k)),
                              Seg(": ", formatted_value(items[i].v))>>])

\* Keys of tests/test_formatting.py, a key with a run of uppercase letters and
\* one that starts with an uppercase letter.
CustomKeys ==
    {Chars("zebraField"), <<"a">>, <<>>,
     Chars("aBC"), Chars("ZScore")}

CustomValues ==
    {PyNone, PyBool(TRUE), PyInt(123), PyStr(Chars("value")), PyList(<<PyInt(1), PyStr(<<"b">>)>>)}

CustomInit ==
    /\ ShimInit
    /\ StackIdle
    /\ lifespan = NoLifespan
    /\ applied = "none"
    /\ input \in {d \in Dicts(CustomKeys, CustomValues, MaxCustom) : DistinctKeys(d)}
    /\ output = <<>>

\* _format_custom_fields(custom_fields) is called.
ApplyFormatCustomFields ==
    /\ applied = "none"
    /\ applied' = "_format_custom_fields"
    /\ output' = _format_custom_fields(input)
    /\ UNCHANGED input
    /\ UNCHANGED <<shimVars, launchVars>>

CustomNext == ApplyFormatCustomFields

CustomSpec == CustomInit /\ [][CustomNext]_vars

\* The label the specification gives a key: a space before every uppercase
\* letter that follows a lowercase letter, the first character capitalised,
\* "Unknown" for the empty key.
RECURSIVE Flatten(_)
Flatten(ss) == IF ss = <<>> THEN <<>> ELSE ss[1] \o Flatten(Tail(ss))

LabelAsClaimed(k) ==
    IF k = <<>> THEN Chars("Unknown")
    ELSE LET spaced == Flatten([i \in 1..Len(k) |->
                                  IF i > 1 /\ k[i] \in Uppercase /\ k[i - 1] \in Lowercase
                                  THEN <<" ", k[i]>> ELSE <<k[i]>>])
         IN  [i \in 1..Len(spaced) |-> IF i = 1 THEN upper(spaced[1]) ELSE spaced[i]]

\* The place of the key k among the keys of d in ascending order.
RankOfKey(d, k) == Cardinality({i \in 1..Len(d) : d[i].k = k \/ StrLess(d[i].k, k)})

\* C18: _format_custom_fields returns exactly one line per key, in ascending
\* order of the original keys whatever the insertion order, the empty sequence
\* for the empty dict, and never raises, whatever the key: a single-character
\* key gives a line, and the empty key gives a line with "Unknown" and the value.
C18_OneLinePerKeySorted ==
    applied = "_format_custom_fields" =>
        /\ output.raised = "none"
        /\ Len(output.value) = Len(input)
        /\ \A i \in 1..Len(input) :
                LET line == output.value[RankOfKey(input, input[i].k)]
                IN  /\ line[1].sub = LabelAsClaimed(input[i].k)
                    /\ line[2].sub = (IF input[i].v = PyNone THEN Chars("N/A") ELSE str(input[i].v))

\* Three fields inserted in descending key order, the empty key among them.
C18_Witness ==
    /\ applied = "_format_custom_fields"
    /\ input = <<Item(Chars("zebraField"), PyStr(Chars("value"))), Item(<<"a">>, PyNone),
                 Item(<<>>, PyStr(Chars("value")))>>
    /\ output.value = << <<Seg("- ", Chars("Unknown")), Seg(": ", Chars("value"))>>,
                         <<Seg("- ", <<"A">>), Seg(": ", Chars("N/A"))>>,
                         <<Seg("- ", Chars("Zebra Field")), Seg(": ", Chars("value"))>> >>

\* ------------------------------------------------------ activity start time
\* s.replace("Z", "+00:00")
RECURSIVE replace_Z(_)
replace_Z(s) ==
    IF s = <<>> THEN <<>>
    ELSE (IF s[1] = "Z" THEN Chars("+00:00") ELSE <<s[1]>>) \o replace_Z(Tail(s))

\* datetime.fromisoformat(s) for a str longer than 10: YYYY-MM-DD, one
\* separator character, a time HH[:MM[:SS[.fff[fff]]]] and an optional UTC
\* offset +HH:MM or -HH:MM. Returns the fields year, month, day, hour, minute,
\* second, or raises ValueError.
fromisoformat(s) ==
    LET digits(t) == \A i \in 1..Len(t) : t[i] \in {CodePoints[k] : k \in 6..15}
        two(t, i) == i + 1 <= Len(t) /\ digits(SubSeq(t, i, i + 1))
        num(t, i) == (ord(t[i]) - 6) * 10 + (ord(t[i + 1]) - 6)
        y == num(s, 1) * 100 + num(s, 3)
        m == num(s, 6)
        d == num(s, 9)
        monthDays == IF m = 2
                     THEN (IF y % 4 = 0 /\ (y % 100 # 0 \/ y % 400 = 0) THEN 29 ELSE 28)
                     ELSE IF m \in {4, 6, 9, 11} THEN 30 ELSE 31
        dateOK == /\ digits(SubSeq(s, 1, 4)) /\ s[5] = "-" /\ two(s, 6) /\ s[8] = "-"
                  /\ two(s, 9)
                  /\ y >= 1 /\ m \in 1..12 /\ d \in 1..monthDays
        rest == SubSeq(s, 12, Len(s))
        signs == {i \in 1..Len(rest) : rest[i] \in {"+", "-"}}
        cut == IF signs = {} THEN Len(rest) + 1
               ELSE CHOOSE i \in signs : \A j \in signs : i <= j
        t == SubSeq(rest, 1, cut - 1)
        z == SubSeq(rest, cut, Len(rest))
        timeShape == \/ Len(t) = 2 /\ two(t, 1)
                     \/ Len(t) = 5 /\ two(t, 1) /\ t[3] = ":" /\ two(t, 4)
                     \/ /\ Len(t) \in {8, 12, 15}
                        /\ two(t, 1) /\ t[3] = ":" /\ two(t, 4) /\ t[6] = ":" /\ two(t, 7)
                        /\ Len(t) > 8 => t[9] = "." /\ digits(SubSeq(t, 10, Len(t)))
        time == <<num(t, 1), IF Len(t) >= 5 THEN num(t, 4) ELSE 0,
                  IF Len(t) >= 8 THEN num(t, 7) ELSE 0>>
        timeOK == timeShape /\ time[1] < 24 /\ time[2] < 60 /\ time[3] < 60
        zoneOK == \/ z = <<>>
                  \/ /\ Len(z) = 6 /\ two(z, 2) /\ z[4] = ":" /\ two(z, 5)
                     /\ num(z, 2) < 24 /\ num(z, 5) < 60
    IN  IF dateOK /\ timeOK /\ zoneOK THEN Return(<<y, m, d>> \o time) ELSE Raise("ValueError")

\* The digits of n, zero-padded to the width w.
RECURSIVE Pad(_, _)
Pad(n, w) == IF w = 0 THEN <<>> ELSE Pad(n \div 10, w - 1) \o <<CodePoints[(n % 10) + 6]>>

\* dt.strftime("%Y-%m-%d %H:%M:%S")
strftime(dt) ==
    Pad(dt[1], 4) \o <<"-">> \o Pad(dt[2], 2) \o <<"-">> \o Pad(dt[3], 2) \o <<" ">>
        \o Pad(dt[4], 2) \o <<":">> \o Pad(dt[5], 2) \o <<":">> \o Pad(dt[6], 2)

\* A variant that lets the ValueError of a failed parse leave the call.
_format_activity_start_time_Uncaught(activity) ==
    LET start_time == Get(activity, Chars("startTime"),
                          Get(activity, Chars("start_date"), PyStr(Chars("Unknown"))))
    IN  IF start_time.t = "str" /\ Len(start_time.s) > 10
        THEN LET dt == fromisoformat(replace_Z(start_time.s))
             IN  IF dt.raised = "none" THEN Return(PyStr(strftime(dt.value))) ELSE dt
        ELSE Return(start_time)

\* _format_activity_start_time(activity)
_format_activity_start_time(activity) ==
    LET start_time == Get(activity, Chars("startTime"),
                          Get(activity, Chars("start_date"), PyStr(Chars("Unknown"))))
    IN  IF start_time.t = "str" /\ Len(start_time.s) > 10
        THEN LET dt == fromisoformat(replace_Z(start_time.s))
             IN  IF dt.raised = "none" THEN Return(PyStr(strftime(dt.value)))
                 ELSE IF dt.raised = "ValueError" THEN Return(start_time)
                 ELSE dt
        ELSE Return(start_time)

\* Start-time strings: a date, a separator, a time and a zone, well-formed or
\* not; strings of at most 10 characters and of 11; values that are not strings.
StartTimes ==
    {PyStr(d \o sep \o t \o z) :
        d \in {Chars("2024-01-01"),
               Chars("2024-02-30"),
               Chars("2024-1-01"),
               Chars("2023-02-29"),
               Chars("2024-02-29")},
        sep \in {<<"T">>, <<" ">>, <<"Z">>},
        t \in {Chars("08:00:00"),
               Chars("25:00:00"),
               Chars("08:05"),
               Chars("08:00:09.500"),
               Chars("8am")},
        z \in {<<>>, <<"Z">>, Chars("+02:00"), <<"x">>}}
    \cup {PyStr(Chars("2024-01-01")),
          PyStr(Chars("2024-01-01Z")),
          PyStr(Chars("Unknown")), PyStr(<<>>),
          PyStr(Chars("not a timestamp")),
          PyNone, PyInt(1704096000)}

\* Activities with startTime, start_date, both or neither.
StartTimeInputs ==
    LET StartDates ==
            {PyStr(Chars("2024-01-01T08:00:00Z")),
             PyStr(Chars("2024-01-01")), PyNone}
    IN
    {<<>>}
        \cup {<<Item(Chars("startTime"), v)>> : v \in StartTimes}
        \cup {<<Item(Chars("start_date"), w)>> : w \in StartDates}
        \cup {<<Item(Chars("startTime"), v),
                Item(Chars("start_date"), w)>> :
                   v \in StartTimes, w \in StartDates}

StartTimeInit ==
    /\ ShimInit
    /\ StackIdle
    /\ lifespan = NoLifespan
    /\ applied = "none"
    /\ input \in StartTimeInputs
    /\ output = <<>>

\* _format_activity_start_time(activity) is called.
ApplyStartTime ==
    /\ applied = "none"
    /\ applied' = "_format_activity_start_time"
    /\ output' = _format_activity_start_time(input)
    /\ UNCHANGED input
    /\ UNCHANGED <<shimVars, launchVars>>

StartTimeNext == ApplyStartTime

StartTimeSpec == StartTimeInit /\ [][StartTimeNext]_vars

\* The start-time value as the claim names it: startTime, else start_date,
\* else "Unknown".
ClaimedStartValue ==
    IF HasKey(input, Chars("startTime"))
    THEN input[CHOOSE i \in 1..Len(input) : input[i].k = Chars("startTime")].v
    ELSE IF HasKey(input, Chars("start_date"))
    THEN input[CHOOSE i \in 1..Len(input) : input[i].k = Chars("start_date")].v
    ELSE PyStr(Chars("Unknown"))

\* The parse of s as an ISO timestamp, a trailing Z read as the offset +00:00.
ParseAsClaimed(s) ==
    fromisoformat(IF s[Len(s)] = "Z"
                  THEN SubSeq(s, 1, Len(s) - 1) \o Chars("+00:00") ELSE s)

\* C20: in format_activity_summary the start-time value (startTime, else
\* start_date, else "Unknown") is reformatted as a timestamp only when it is a
\* string of more than 10 characters that parses as an ISO timestamp, a
\* trailing Z read as UTC offset zero; a string of 10 or fewer characters and a
\* string that fails to parse are rendered as they are, and no error is raised.
C20_StartTimeReformat ==
    applied = "_format_activity_start_time" =>
        LET v == ClaimedStartValue
            long == v.t = "str" /\ Len(v.s) > 10
        IN  /\ output.raised = "none"
            /\ ~long => output.value = v
            /\ long /\ ParseAsClaimed(v.s).raised # "none" => output.value = v
            /\ output.value # v =>
                    /\ long /\ ParseAsClaimed(v.s).raised = "none"
                    /\ output.value = PyStr(strftime(ParseAsClaimed(v.s).value))

\* A startTime with a trailing Z was reformatted, start_date being ignored.
C20_Witness ==
    /\ applied = "_format_activity_start_time"
    /\ Len(input) = 2
    /\ input[1].v = PyStr(Chars("2024-02-29T08:05Z"))
    /\ output = Return(PyStr(Chars("2024-02-29 08:05:00")))

\* ------------------------------------------------------------- formatters
\* bool(value)
Truthy(value) ==
    CASE value.t = "NoneType" -> FALSE
      [] value.t \in {"bool", "int"} -> value.n # 0
      [] value.t = "str" -> value.s # <<>>
      [] OTHER -> value.items # <<>>

\* len(value)
len(value) ==
    IF value.t = "str" THEN Return(Len(value.s))
    ELSE IF value.t \in {"list", "dict"} THEN Return(Len(value.items))
    ELSE Raise("TypeError")

\* One replacement field of an f-string with the literal text in front of it:
\* {d.get(k1, d.get(k2, default))} for the keys k1, k2; with no key the value
\* `default` itself is put in.
P(lit, keys, default) ==
    [lit |-> lit, keys |-> [i \in 1..Len(keys) |-> Chars(keys[i])], default |-> default]

\* Literal text of an f-string with no replacement field after it.
T(lit) == P(lit, <<>>, PyStr(<<>>))

\* d.get(k1, default) where d has no k1.
Lookup_NoDefault(d, keys, default) ==
    IF keys = <<>> THEN default ELSE Get(d, keys[1], PyNone)

\* d.get(k1, d.get(k2, ... default))
RECURSIVE Lookup(_, _, _)
Lookup(d, keys, default) ==
    IF keys = <<>> THEN default ELSE Get(d, keys[1], Lookup(d, Tail(keys), default))

\* The lines of an f-string, its fields filled in from the dict d.
Render(template, d) ==
    [i \in 1..Len(template) |->
        [j \in 1..Len(template[i]) |->
            Seg(template[i][j].lit,
                str(Lookup(d, template[i][j].keys, template[i][j].default)))]]

\* _format_activity_rpe(activity)
_format_activity_rpe(activity) ==
    LET first == Get(activity, Chars("perceived_exertion"), PyNone)
        rpe == IF first.t = "NoneType" THEN Get(activity, Chars("icu_rpe"), PyStr(Chars("N/A")))
               ELSE first
    IN  IF rpe.t \in {"int", "bool"} THEN PyStr(str(rpe) \o Chars("/10")) ELSE rpe

\* _format_activity_feel(activity)
_format_activity_feel(activity) ==
    LET feel == Get(activity, Chars("feel"), PyStr(Chars("N/A")))
    IN  IF feel.t \in {"int", "bool"} THEN PyStr(str(feel) \o Chars("/5")) ELSE feel

\* The f-string of format_activity_summary (lines 246-309).
ActivityTemplate(start_time, rpe, feel) ==
    << <<>>,
       <<P("Activity: ", <<"name">>, PyStr(Chars("Unnamed")))>>,
       <<P("ID: ", <<"id">>, PyStr(Chars("N/A")))>>,
       <<P("Type: ", <<"type">>, PyStr(Chars("Unknown")))>>,
       <<P("Date: ", <<>>, start_time)>>,
       <<P("Description: ", <<"description">>, PyStr(Chars("N/A")))>>,
       <<P("Distance: ", <<"distance">>, PyInt(0)),
         T(" meters")>>,
       <<P("Duration: ", <<"duration", "elapsed_time">>, PyInt(0)),
         T(" seconds")>>,
       <<P("Moving Time: ", <<"moving_time">>, PyStr(Chars("N/A"))),
         T(" seconds")>>,
       <<P("Elevation Gain: ", <<"elevationGain", "total_elevation_gain">>, PyInt(0)),
         T(" meters")>>,
       <<P("Elevation Loss: ", <<"total_elevation_loss">>, PyStr(Chars("N/A"))),
         T(" meters")>>,
       <<>>,
       <<T("Power Data:")>>,
       <<P("Average Power: ", <<"avgPower", "icu_average_watts", "average_watts">>, PyStr(Chars("N/A"))),
         T(" watts")>>,
       <<P("Weighted Avg Power: ", <<"icu_weighted_avg_watts">>, PyStr(Chars("N/A"))),
         T(" watts")>>,
       <<P("Training Load: ", <<"trainingLoad", "icu_training_load">>, PyStr(Chars("N/A")))>>,
       <<P("FTP: ", <<"icu_ftp">>, PyStr(Chars("N/A"))),
         T(" watts")>>,
       <<P("Kilojoules: ", <<"icu_joules">>, PyStr(Chars("N/A")))>>,
       <<P("Intensity: ", <<"icu_intensity">>, PyStr(Chars("N/A")))>>,
       <<P("Power:HR Ratio: ", <<"icu_power_hr">>, PyStr(Chars("N/A")))>>,
       <<P("Variability Index: ", <<"icu_variability_index">>, PyStr(Chars("N/A")))>>,
       <<>>,
       <<T("Heart Rate Data:")>>,
       <<P("Average Heart Rate: ", <<"avgHr", "average_heartrate">>, PyStr(Chars("N/A"))),
         T(" bpm")>>,
       <<P("Max Heart Rate: ", <<"max_heartrate">>, PyStr(Chars("N/A"))),
         T(" bpm")>>,
       <<P("LTHR: ", <<"lthr">>, PyStr(Chars("N/A"))),
         T(" bpm")>>,
       <<P("Resting HR: ", <<"icu_resting_hr">>, PyStr(Chars("N/A"))),
         T(" bpm")>>,
       <<P("Decoupling: ", <<"decoupling">>, PyStr(Chars("N/A")))>>,
       <<>>,
       <<T("Other Metrics:")>>,
       <<P("Cadence: ", <<"average_cadence">>, PyStr(Chars("N/A"))),
         T(" rpm")>>,
       <<P("Calories: ", <<"calories">>, PyStr(Chars("N/A")))>>,
       <<P("Average Speed: ", <<"average_speed">>, PyStr(Chars("N/A"))),
         T(" m/s")>>,
       <<P("Max Speed: ", <<"max_speed">>, PyStr(Chars("N/A"))),
         T(" m/s")>>,
       <<P("Average Stride: ", <<"average_stride">>, PyStr(Chars("N/A")))>>,
       <<P("L/R Balance: ", <<"avg_lr_balance">>, PyStr(Chars("N/A")))>>,
       <<P("Weight: ", <<"icu_weight">>, PyStr(Chars("N/A"))),
         T(" kg")>>,
       <<P("RPE: ", <<>>, rpe)>>,
       <<P("Session RPE: ", <<"session_rpe">>, PyStr(Chars("N/A")))>>,
       <<P("Feel: ", <<>>, feel)>>,
       <<>>,
       <<T("Environment:")>>,
       <<P("Trainer: ", <<"trainer">>, PyStr(Chars("N/A")))>>,
       <<P("Average Temp: ", <<"average_temp">>, PyStr(Chars("N/A"))),
         T("\\u00b0C")>>,
       <<P("Min Temp: ", <<"min_temp">>, PyStr(Chars("N/A"))),
         T("\\u00b0C")>>,
       <<P("Max Temp: ", <<"max_temp">>, PyStr(Chars("N/A"))),
         T("\\u00b0C")>>,
       <<P("Avg Wind Speed: ", <<"average_wind_speed">>, PyStr(Chars("N/A"))),
         T(" km/h")>>,
       <<P("Headwind %: ", <<"headwind_percent">>, PyStr(Chars("N/A"))),
         T("%")>>,
       <<P("Tailwind %: ", <<"tailwind_percent">>, PyStr(Chars("N/A"))),
         T("%")>>,
       <<>>,
       <<T("Training Metrics:")>>,
       <<P("Fitness (CTL): ", <<"icu_ctl">>, PyStr(Chars("N/A")))>>,
       <<P("Fatigue (ATL): ", <<"icu_atl">>, PyStr(Chars("N/A")))>>,
       <<P("TRIMP: ", <<"trimp">>, PyStr(Chars("N/A")))>>,
       <<P("Polarization Index: ", <<"polarization_index">>, PyStr(Chars("N/A")))>>,
       <<P("Power Load: ", <<"power_load">>, PyStr(Chars("N/A")))>>,
       <<P("HR Load: ", <<"hr_load">>, PyStr(Chars("N/A")))>>,
       <<P("Pace Load: ", <<"pace_load">>, PyStr(Chars("N/A")))>>,
       <<P("Efficiency Factor: ", <<"icu_efficiency_factor">>, PyStr(Chars("N/A")))>>,
       <<>>,
       <<T("Device Info:")>>,
       <<P("Device: ", <<"device_name">>, PyStr(Chars("N/A")))>>,
       <<P("Power Meter: ", <<"power_meter">>, PyStr(Chars("N/A")))>>,
       <<P("File Type: ", <<"file_type">>, PyStr(Chars("N/A")))>> >>

\* A formatter that leaves out the custom-field section.
format_activity_summary_NoCustom(activity) ==
    Return(Render(ActivityTemplate(_format_activity_start_time(activity).value,
                                   _format_activity_rpe(activity),
                                   _format_activity_feel(activity)), activity))

\* format_activity_summary(activity)
format_activity_summary(activity) ==
    LET start_time == _format_activity_start_time(activity)
        rpe == _format_activity_rpe(activity)
        feel == _format_activity_feel(activity)
        custom_fields == _detect_custom_fields(activity, _KNOWN_ACTIVITY_FIELDS)
        custom_fields_lines == _format_custom_fields(custom_fields)
        result == Render(ActivityTemplate(start_time.value, rpe, feel), activity)
    IN  IF start_time.raised # "none" THEN start_time
        ELSE IF custom_fields_lines.raised # "none" THEN custom_fields_lines
        ELSE IF custom_fields_lines.value # <<>>
        THEN Return(result \o << <<>>, <<Seg("Custom Fields:", <<>>)>> >>
                        \o custom_fields_lines.value)
        ELSE Return(result)

\* The f-string of format_workout (lines 321-328); n is len(intervals).
WorkoutTemplate(n) ==
    << <<>>,
       <<P("Workout: ", <<"name">>, PyStr(Chars("Unnamed")))>>,
       <<P("Description: ", <<"description">>, PyStr(Chars("No description")))>>,
       <<P("Sport: ", <<"sport">>, PyStr(Chars("Unknown")))>>,
       <<P("Duration: ", <<"duration">>, PyInt(0)),
         T(" seconds")>>,
       <<P("TSS: ", <<"tss">>, PyStr(Chars("N/A")))>>,
       <<P("Intervals: ", <<>>, n)>>,
       <<>> >>

\* format_workout(workout)
format_workout(workout) ==
    LET n == len(Get(workout, Chars("intervals"), PyList(<<>>)))
    IN  IF n.raised # "none" THEN n ELSE Return(Render(WorkoutTemplate(PyInt(n.value)), workout))

\* a += b for two texts, each the sequence of its lines: the first line of b
\* continues the last line of a.
Cat(a, b) == SubSeq(a, 1, Len(a) - 1) \o <<a[Len(a)] \o b[1]>> \o Tail(b)

\* The f-string of format_event_summary (lines 533-537), the locals
\* event_date, event_id, event_name and event_desc written as their .get chains.
EventSummaryTemplate(event_type) ==
    << <<P("Date: ", <<"start_date_local", "date">>, PyStr(Chars("Unknown")))>>,
       <<P("ID: ", <<"id">>, PyStr(Chars("N/A")))>>,
       <<P("Type: ", <<>>, event_type)>>,
       <<P("Name: ", <<"name">>, PyStr(Chars("Unnamed")))>>,
       <<P("Description: ", <<"description">>, PyStr(Chars("No description")))>> >>

\* A summary that looks at race before workout.
format_event_summary_RaceFirst(event) ==
    LET event_type == IF Truthy(Get(event, Chars("race"), PyNone)) THEN Chars("Race")
                      ELSE IF Truthy(Get(event, Chars("workout"), PyNone)) THEN Chars("Workout")
                      ELSE Chars("Other")
    IN  Return(Render(EventSummaryTemplate(PyStr(event_type)), event))

\* format_event_summary(event)
format_event_summary(event) ==
    LET event_type == IF Truthy(Get(event, Chars("workout"), PyNone)) THEN Chars("Workout")
                      ELSE IF Truthy(Get(event, Chars("race"), PyNone)) THEN Chars("Race")
                      ELSE Chars("Other")
    IN  Return(Render(EventSummaryTemplate(PyStr(event_type)), event))

\* The f-strings of format_event_details (lines 543-548, 553-559, 563-564,
\* 568-572, 577-579); n is len(workout["intervals"]).
EventDetailsTemplate(part, n) ==
    CASE part = "base" ->
            << <<T("Event Details:")>>,
               <<>>,
               <<P("ID: ", <<"id">>, PyStr(Chars("N/A")))>>,
               <<P("Date: ", <<"date">>, PyStr(Chars("Unknown")))>>,
               <<P("Name: ", <<"name">>, PyStr(Chars("Unnamed")))>>,
               <<P("Description: ", <<"description">>, PyStr(Chars("No description")))>> >>
      [] part = "workout" ->
            << <<>>,
               <<>>,
               <<T("Workout Information:")>>,
               <<P("Workout ID: ", <<"id">>, PyStr(Chars("N/A")))>>,
               <<P("Sport: ", <<"sport">>, PyStr(Chars("Unknown")))>>,
               <<P("Duration: ", <<"duration">>, PyInt(0)),
                 T(" seconds")>>,
               <<P("TSS: ", <<"tss">>, PyStr(Chars("N/A")))>> >>
      [] part = "intervals" ->
            << <<>>,
               <<P("Intervals: ", <<>>, PyInt(n))>> >>
      [] part = "race" ->
            << <<>>,
               <<>>,
               <<T("Race Information:")>>,
               <<P("Priority: ", <<"priority">>, PyStr(Chars("N/A")))>>,
               <<P("Result: ", <<"result">>, PyStr(Chars("N/A")))>> >>
      [] part = "calendar" ->
            << <<>>,
               <<>>,
               <<P("Calendar: ", <<"name">>, PyStr(Chars("N/A")))>> >>

\* format_event_details(event)
format_event_details(event) ==
    LET workout == Get(event, Chars("workout"), PyNone)
        hasWorkout == HasKey(event, Chars("workout")) /\ Truthy(workout)
        intervals == Get(workout.items, Chars("intervals"), PyNone)
        cal == Get(event, Chars("calendar"), PyNone)
        details1 == Render(EventDetailsTemplate("base", 0), event)
        details2 == IF ~hasWorkout THEN details1
                    ELSE Cat(details1, Render(EventDetailsTemplate("workout", 0), workout.items))
        details3 == IF hasWorkout /\ HasKey(workout.items, Chars("intervals")) /\ intervals.t = "list"
                    THEN Cat(details2, Render(EventDetailsTemplate("intervals",
                                                                   Len(intervals.items)), <<>>))
                    ELSE details2
        details4 == IF Truthy(Get(event, Chars("race"), PyNone))
                    THEN Cat(details3, Render(EventDetailsTemplate("race", 0), event))
                    ELSE details3
    IN  IF hasWorkout /\ workout.t # "dict" THEN Raise("AttributeError")
        ELSE IF ~HasKey(event, Chars("calendar")) THEN Return(details4)
        ELSE IF cal.t # "dict" THEN Raise("AttributeError")
        ELSE Return(Cat(details4, Render(EventDetailsTemplate("calendar", 0), cal.items)))

\* The f-strings of format_intervals (lines 594-599, 606-648, 655-666); i is
\* the 1-based index of the interval or group.
IntervalsTemplate(part, i) ==
    CASE part = "header" ->
            << <<T("Intervals Analysis:")>>,
               <<>>,
               <<P("ID: ", <<"id">>, PyStr(Chars("N/A")))>>,
               <<P("Analyzed: ", <<"analyzed">>, PyStr(Chars("N/A")))>>,
               <<>>,
               <<>> >>
      [] part = "interval" ->
            << <<P("[", <<>>, PyInt(i)),
                 P("] ", <<"label">>, PyStr(Chars("Interval ") \o Digits(i))),
                 P(" (", <<"type">>, PyStr(Chars("Unknown"))),
                 T(")")>>,
               <<P("Duration: ", <<"elapsed_time">>, PyInt(0)),
                 P(" seconds (moving: ", <<"moving_time">>, PyInt(0)),
                 T(" seconds)")>>,
               <<P("Distance: ", <<"distance">>, PyInt(0)),
                 T(" meters")>>,
               <<P("Start-End Indices: ", <<"start_index">>, PyInt(0)),
                 P("-", <<"end_index">>, PyInt(0))>>,
               <<>>,
               <<T("Power Metrics:")>>,
               <<P("  Average Power: ", <<"average_watts">>, PyInt(0)),
                 P(" watts (", <<"average_watts_kg">>, PyInt(0)),
                 T(" W/kg)")>>,
               <<P("  Max Power: ", <<"max_watts">>, PyInt(0)),
                 P(" watts (", <<"max_watts_kg">>, PyInt(0)),
                 T(" W/kg)")>>,
               <<P("  Weighted Avg Power: ", <<"weighted_average_watts">>, PyInt(0)),
                 T(" watts")>>,
               <<P("  Intensity: ", <<"intensity">>, PyInt(0))>>,
               <<P("  Training Load: ", <<"training_load">>, PyInt(0))>>,
               <<P("  Joules: ", <<"joules">>, PyInt(0))>>,
               <<P("  Joules > FTP: ", <<"joules_above_ftp">>, PyInt(0))>>,
               <<P("  Power Zone: ", <<"zone">>, PyStr(Chars("N/A"))),
                 P(" (", <<"zone_min_watts">>, PyInt(0)),
                 P("-", <<"zone_max_watts">>, PyInt(0)),
                 T(" watts)")>>,
               <<P("  W' Balance: Start ", <<"wbal_start">>, PyInt(0)),
                 P(", End ", <<"wbal_end">>, PyInt(0))>>,
               <<P("  L/R Balance: ", <<"avg_lr_balance">>, PyInt(0))>>,
               <<P("  Variability: ", <<"w5s_variability">>, PyInt(0))>>,
               <<P("  Torque: Avg ", <<"average_torque">>, PyInt(0)),
                 P(", Min ", <<"min_torque">>, PyInt(0)),
                 P(", Max ", <<"max_torque">>, PyInt(0))>>,
               <<>>,
               <<T("Heart Rate & Metabolic:")>>,
               <<P("  Heart Rate: Avg ", <<"average_heartrate">>, PyInt(0)),
                 P(", Min ", <<"min_heartrate">>, PyInt(0)),
                 P(", Max ", <<"max_heartrate">>, PyInt(0)),
                 T(" bpm")>>,
               <<P("  Decoupling: ", <<"decoupling">>, PyInt(0))>>,
               <<P("  DFA \\u03b11: ", <<"average_dfa_a1">>, PyInt(0))>>,
               <<P("  Respiration: ", <<"average_respiration">>, PyInt(0)),
                 T(" breaths/min")>>,
               <<P("  EPOC: ", <<"average_epoc">>, PyInt(0))>>,
               <<P("  SmO2: ", <<"average_smo2">>, PyInt(0)),
                 P("% / ", <<"average_smo2_2">>, PyInt(0)),
                 T("%")>>,
               <<P("  THb: ", <<"average_thb">>, PyInt(0)),
                 P(" / ", <<"average_thb_2">>, PyInt(0))>>,
               <<>>,
               <<T("Speed & Cadence:")>>,
               <<P("  Speed: Avg ", <<"average_speed">>, PyInt(0)),
                 P(", Min ", <<"min_speed">>, PyInt(0)),
                 P(", Max ", <<"max_speed">>, PyInt(0)),
                 T(" m/s")>>,
               <<P("  GAP: ", <<"gap">>, PyInt(0)),
                 T(" m/s")>>,
               <<P("  Cadence: Avg ", <<"average_cadence">>, PyInt(0)),
                 P(", Min ", <<"min_cadence">>, PyInt(0)),
                 P(", Max ", <<"max_cadence">>, PyInt(0)),
                 T(" rpm")>>,
               <<P("  Stride: ", <<"average_stride">>, PyInt(0))>>,
               <<>>,
               <<T("Elevation & Environment:")>>,
               <<P("  Elevation Gain: ", <<"total_elevation_gain">>, PyInt(0)),
                 T(" meters")>>,
               <<P("  Altitude: Min ", <<"min_altitude">>, PyInt(0)),
                 P(", Max ", <<"max_altitude">>, PyInt(0)),
                 T(" meters")>>,
               <<P("  Gradient: ", <<"average_gradient">>, PyInt(0)),
                 T("%")>>,
               <<P("  Temperature: ", <<"average_temp">>, PyInt(0)),
                 P("\\u00b0C (Weather: ", <<"average_weather_temp">>, PyInt(0)),
                 P("\\u00b0C, Feels like: ", <<"average_feels_like">>, PyInt(0)),
                 T("\\u00b0C)")>>,
               <<P("  Wind: Speed ", <<"average_wind_speed">>, PyInt(0)),
                 P(" km/h, Gust ", <<"average_wind_gust">>, PyInt(0)),
                 P(" km/h, Direction ", <<"prevailing_wind_deg">>, PyInt(0)),
                 T("\\u00b0")>>,
               <<P("  Headwind: ", <<"headwind_percent">>, PyInt(0)),
                 P("%, Tailwind: ", <<"tailwind_percent">>, PyInt(0)),
                 T("%")>>,
               <<>>,
               <<>> >>
      [] part = "group" ->
            << <<P("Group: ", <<"id">>, PyStr(Chars("Group ") \o Digits(i))),
                 P(" (Contains ", <<"count">>, PyInt(0)),
                 T(" intervals)")>>,
               <<P("Duration: ", <<"elapsed_time">>, PyInt(0)),
                 P(" seconds (moving: ", <<"moving_time">>, PyInt(0)),
                 T(" seconds)")>>,
               <<P("Distance: ", <<"distance">>, PyInt(0)),
                 T(" meters")>>,
               <<P("Start-End Indices: ", <<"start_index">>, PyInt(0)),
                 T("-N/A")>>,
               <<>>,
               <<P("Power: Avg ", <<"average_watts">>, PyInt(0)),
                 P(" watts (", <<"average_watts_kg">>, PyInt(0)),
                 P(" W/kg), Max ", <<"max_watts">>, PyInt(0)),
                 T(" watts")>>,
               <<P("W. Avg Power: ", <<"weighted_average_watts">>, PyInt(0)),
                 P(" watts, Intensity: ", <<"intensity">>, PyInt(0))>>,
               <<P("Heart Rate: Avg ", <<"average_heartrate">>, PyInt(0)),
                 P(", Max ", <<"max_heartrate">>, PyInt(0)),
                 T(" bpm")>>,
               <<P("Speed: Avg ", <<"average_speed">>, PyInt(0)),
                 P(", Max ", <<"max_speed">>, PyInt(0)),
                 T(" m/s")>>,
               <<P("Cadence: Avg ", <<"average_cadence">>, PyInt(0)),
                 P(", Max ", <<"max_cadence">>, PyInt(0)),
                 T(" rpm")>>,
               <<>>,
               <<>> >>

\* The blocks that one loop of format_intervals adds for the elements from
\* the i-th on.
RECURSIVE IntervalBlocks(_, _, _)
IntervalBlocks(part, elements, i) ==
    IF i > Len(elements) THEN << <<>> >>
    ELSE Cat(Render(IntervalsTemplate(part, i), elements[i].items),
             IntervalBlocks(part, elements, i + 1))

\* format_intervals(intervals_data)
format_intervals(intervals_data) ==
    LET loop(key, part, title) ==
            LET value == Get(intervals_data, key, PyNone)
            IN  IF ~(HasKey(intervals_data, key) /\ Truthy(value)) THEN Return(<< <<>> >>)
                ELSE IF value.t \in {"int", "bool"} THEN Raise("TypeError")
                ELSE IF value.t # "list" THEN Raise("AttributeError")
                ELSE IF \E k \in 1..Len(value.items) : value.items[k].t # "dict"
                THEN Raise("AttributeError")
                ELSE Return(Cat(<< <<Seg(title, <<>>)>>, <<>>, <<>> >>,
                                IntervalBlocks(part, value.items, 1)))
        intervals == loop(Chars("icu_intervals"), "interval", "Individual Intervals:")
        groups == loop(Chars("icu_groups"), "group", "Interval Groups:")
    IN  IF intervals.raised # "none" THEN intervals
        ELSE IF groups.raised # "none" THEN groups
        ELSE Return(Cat(Cat(Render(IntervalsTemplate("header", 0), intervals_data),
                            intervals.value), groups.value))

\* _format_vital_signs(entries)
_format_vital_signs(entries) ==
    LET table == <<
            <<"weight", "Weight", "kg">>, <<"restingHR", "Resting HR", "bpm">>,
            <<"hrv", "HRV", "">>, <<"hrvSDNN", "HRV SDNN", "">>,
            <<"avgSleepingHR", "Average Sleeping HR", "bpm">>, <<"spO2", "SpO2", "%">>,
            <<"systolic", "Systolic BP", "">>, <<"diastolic", "Diastolic BP", "">>,
            <<"respiration", "Respiration", "breaths/min">>,
            <<"bloodGlucose", "Blood Glucose", "mmol/L">>, <<"lactate", "Lactate", "mmol/L">>,
            <<"vo2max", "VO2 Max", "ml/kg/min">>, <<"bodyFat", "Body Fat", "%">>,
            <<"abdomen", "Abdomen", "cm">>, <<"baevskySI", "Baevsky Stress Index", "">> >>
        present(k) == Get(entries, Chars(k), PyNone).t # "NoneType"
        appends(row) ==
            /\ present(row[1])
            /\ \/ row[1] = "systolic" /\ present("diastolic")
               \/ row[1] \notin {"systolic", "diastolic"}
        line(row) ==
            IF row[1] = "systolic"
            THEN <<Seg("- Blood Pressure: ", str(Get(entries, Chars("systolic"), PyNone))),
                   Seg("/", str(Get(entries, Chars("diastolic"), PyNone))), Seg(" mmHg", <<>>)>>
            ELSE <<Seg("- ", Chars(row[2])), Seg(": ", str(Get(entries, Chars(row[1]), PyNone))),
                   Seg("", IF row[3] # "" THEN <<" ">> \o Chars(row[3]) ELSE <<>>)>>
        rows == SelectSeq(table, appends)
    IN  [i \in 1..Len(rows) |-> line(rows[i])]

\* _format_sleep_recovery(entries)
_format_sleep_recovery(entries) ==
    LET value(k) == Get(entries, Chars(k), PyNone)
        present(k) == value(k).t # "NoneType"
        \* f"{n / 3600:.2f}" for an int n >= 0, n % 36 # 18 (a decimal tie goes by
        \* the binary value of the quotient)
        hundredths(n) == (n \div 36) + (IF n % 36 > 18 THEN 1 ELSE 0)
        hours(n) == Digits(hundredths(n) \div 100) \o <<".">> \o Pad(hundredths(n) % 100, 2)
        sleep == IF present("sleepSecs")
                 THEN << <<Seg("  Sleep: ", hours(value("sleepSecs").n)), Seg(" hours", <<>>)>> >>
                 ELSE IF present("sleepHours")
                 THEN << <<Seg("  Sleep: ", str(value("sleepHours"))), Seg(" hours", <<>>)>> >>
                 ELSE <<>>
        quality_value == value("sleepQuality")
        quality_text ==
            IF quality_value.t \in {"int", "bool"} /\ quality_value.n \in 1..4
            THEN Chars(<<"Great", "Good", "Average", "Poor">>[quality_value.n])
            ELSE str(quality_value)
        quality == IF present("sleepQuality")
                   THEN << <<Seg("  Sleep Quality: ", str(quality_value)),
                             Seg(" (", quality_text), Seg(")", <<>>)>> >>
                   ELSE <<>>
        score == IF present("sleepScore")
                 THEN << <<Seg("  Device Sleep Score: ", str(value("sleepScore"))),
                           Seg("/100", <<>>)>> >>
                 ELSE <<>>
        readiness == IF present("readiness")
                     THEN << <<Seg("  Readiness: ", str(value("readiness"))),
                               Seg("/10", <<>>)>> >>
                     ELSE <<>>
    IN  IF present("sleepSecs") /\ value("sleepSecs").t \notin {"int", "bool"}
        THEN Raise("TypeError")
        ELSE IF present("sleepQuality") /\ quality_value.t \in {"list", "dict"}
        THEN Raise("TypeError")
        ELSE Return(sleep \o quality \o score \o readiness)

\* format_wellness_entry(entries), with the section helpers that are one loop
\* over a table of keys and labels.
format_wellness_entry(entries) ==
    LET value(k) == Get(entries, Chars(k), PyNone)
        present(k) == value(k).t # "NoneType"
        \* the lines of a table loop: f"{prefix}{label}: {entries[k]}{suffix}"
        labelled(table, prefix, suffix) ==
            LET rows == SelectSeq(table, LAMBDA row : present(row[1]))
            IN  [i \in 1..Len(rows) |->
                    <<Seg(prefix, Chars(rows[i][2])), Seg(": ", str(value(rows[i][1]))),
                      Seg(suffix, <<>>)>>]
        _format_training_metrics ==
            labelled(<< <<"ctl", "Fitness (CTL)">>, <<"atl", "Fatigue (ATL)">>,
                        <<"rampRate", "Ramp Rate">>, <<"ctlLoad", "CTL Load">>,
                        <<"atlLoad", "ATL Load">> >>, "- ", "")
        sportInfo == value("sportInfo")
        sports == SelectSeq(IF sportInfo.t = "list" THEN sportInfo.items ELSE <<>>,
                            LAMBDA sport : /\ sport.t = "dict"
                                           /\ Get(sport.items, Chars("eftp"), PyNone).t # "NoneType")
        _format_sport_info ==
            IF ~Truthy(sportInfo) THEN <<>>
            ELSE [i \in 1..Len(sports) |->
                    <<Seg("- ", str(Get(sports[i].items, Chars("type"), PyNone))),
                      Seg(": eFTP = ", str(Get(sports[i].items, Chars("eftp"), PyNone)))>>]
        lower(c) == IF c \in Uppercase THEN CodePoints[ord(c) + 27] ELSE c
        capitalize(s) == [i \in 1..Len(s) |-> IF i = 1 THEN upper(s[i]) ELSE lower(s[i])]
        _format_menstrual_tracking ==
            (IF present("menstrualPhase")
             THEN << <<Seg("  Menstrual Phase: ", capitalize(str(value("menstrualPhase"))))>> >>
             ELSE <<>>)
            \o (IF present("menstrualPhasePredicted")
                THEN << <<Seg("  Predicted Phase: ",
                              capitalize(str(value("menstrualPhasePredicted"))))>> >>
                ELSE <<>>)
        _format_subjective_feelings ==
            labelled(<< <<"soreness", "Soreness">>, <<"fatigue", "Fatigue">>,
                        <<"stress", "Stress">>, <<"mood", "Mood">>,
                        <<"motivation", "Motivation">>, <<"injury", "Injury Level">> >>,
                     "  ", "/10")
        _format_nutrition_hydration ==
            labelled(<< <<"kcalConsumed", "Calories Consumed">>,
                        <<"hydrationVolume", "Hydration Volume">> >>, "- ", "")
            \o (IF present("hydration")
                THEN << <<Seg("  Hydration Score: ", str(value("hydration"))), Seg("/10", <<>>)>> >>
                ELSE <<>>)
        _add_wellness_section(section_lines, section_title) ==
            IF section_lines # <<>>
            THEN << <<Seg(section_title, <<>>)>> >> \o section_lines \o << <<>> >>
            ELSE <<>>
        sleep == _format_sleep_recovery(entries)
        custom_fields == _detect_custom_fields(entries, _KNOWN_WELLNESS_FIELDS)
        custom_fields_lines == _format_custom_fields(custom_fields)
        lines ==
            << <<Seg("Wellness Data:", <<>>)>>,
               <<Seg("Date: ", str(Get(entries, Chars("id"), PyStr(Chars("N/A")))))>>, <<>> >>
            \o _add_wellness_section(_format_training_metrics, "Training Metrics:")
            \o _add_wellness_section(_format_sport_info, "Sport-Specific Info:")
            \o _add_wellness_section(_format_vital_signs(entries), "Vital Signs:")
            \o _add_wellness_section(sleep.value, "Sleep & Recovery:")
            \o _add_wellness_section(_format_menstrual_tracking, "Menstrual Tracking:")
            \o _add_wellness_section(_format_subjective_feelings, "Subjective Feelings:")
            \o _add_wellness_section(_format_nutrition_hydration, "Nutrition & Hydration:")
            \o (IF present("steps")
                THEN << <<Seg("Activity:", <<>>)>>, <<Seg("- Steps: ", str(value("steps")))>>,
                        <<>> >>
                ELSE <<>>)
            \o (IF Truthy(value("comments"))
                THEN << <<Seg("Comments: ", str(value("comments")))>> >> ELSE <<>>)
            \o (IF HasKey(entries, Chars("locked"))
                THEN << <<Seg("Status: ", IF Truthy(value("locked")) THEN Chars("Locked")
                                          ELSE Chars("Unlocked"))>> >>
                ELSE <<>>)
            \o (IF custom_fields_lines.value # <<>>
                THEN << <<>>, <<Seg("Custom Fields:", <<>>)>> >> \o custom_fields_lines.value
                ELSE <<>>)
    IN  IF Truthy(sportInfo) /\ sportInfo.t \in {"int", "bool"} THEN Raise("TypeError")
        ELSE IF sleep.raised # "none" THEN sleep
        ELSE IF custom_fields_lines.raised # "none" THEN custom_fields_lines
        ELSE Return(lines)

\* ------------------------------------------------- the formatters, applied
\* One payload of each kind that holds every field its formatter reads, each
\* with a value of the kind the formatter expects.
Full ==
    [ activity |-> <<
        Item(Chars("startTime"), PyStr(Chars("2024-01-02T09:30:00"))),
        Item(Chars("start_date"), PyStr(Chars("2024-01-01T08:00:00Z"))),
        Item(Chars("perceived_exertion"), PyInt(7)), Item(Chars("icu_rpe"), PyInt(5)),
        Item(Chars("feel"), PyInt(3)), Item(Chars("name"), PyStr(Chars("Morning Ride"))),
        Item(Chars("id"), PyInt(106)), Item(Chars("type"), PyStr(Chars("Ride"))),
        Item(Chars("description"), PyStr(Chars("Easy spin"))),
        Item(Chars("distance"), PyInt(109)), Item(Chars("duration"), PyInt(110)),
        Item(Chars("elapsed_time"), PyInt(111)), Item(Chars("moving_time"), PyInt(112)),
        Item(Chars("elevationGain"), PyInt(113)),
        Item(Chars("total_elevation_gain"), PyInt(114)),
        Item(Chars("total_elevation_loss"), PyInt(115)), Item(Chars("avgPower"), PyInt(116)),
        Item(Chars("icu_average_watts"), PyInt(117)), Item(Chars("average_watts"), PyInt(118)),
        Item(Chars("icu_weighted_avg_watts"), PyInt(119)),
        Item(Chars("trainingLoad"), PyInt(120)), Item(Chars("icu_training_load"), PyInt(121)),
        Item(Chars("icu_ftp"), PyInt(122)), Item(Chars("icu_joules"), PyInt(123)),
        Item(Chars("icu_intensity"), PyInt(124)), Item(Chars("icu_power_hr"), PyInt(125)),
        Item(Chars("icu_variability_index"), PyInt(126)), Item(Chars("avgHr"), PyInt(127)),
        Item(Chars("average_heartrate"), PyInt(128)), Item(Chars("max_heartrate"), PyInt(129)),
        Item(Chars("lthr"), PyInt(130)), Item(Chars("icu_resting_hr"), PyInt(131)),
        Item(Chars("decoupling"), PyInt(132)), Item(Chars("average_cadence"), PyInt(133)),
        Item(Chars("calories"), PyInt(134)), Item(Chars("average_speed"), PyInt(135)),
        Item(Chars("max_speed"), PyInt(136)), Item(Chars("average_stride"), PyInt(137)),
        Item(Chars("avg_lr_balance"), PyInt(138)), Item(Chars("icu_weight"), PyInt(139)),
        Item(Chars("session_rpe"), PyInt(140)), Item(Chars("trainer"), PyInt(141)),
        Item(Chars("average_temp"), PyInt(142)), Item(Chars("min_temp"), PyInt(143)),
        Item(Chars("max_temp"), PyInt(144)), Item(Chars("average_wind_speed"), PyInt(145)),
        Item(Chars("headwind_percent"), PyInt(146)),
        Item(Chars("tailwind_percent"), PyInt(147)), Item(Chars("icu_ctl"), PyInt(148)),
        Item(Chars("icu_atl"), PyInt(149)), Item(Chars("trimp"), PyInt(150)),
        Item(Chars("polarization_index"), PyInt(151)), Item(Chars("power_load"), PyInt(152)),
        Item(Chars("hr_load"), PyInt(153)), Item(Chars("pace_load"), PyInt(154)),
        Item(Chars("icu_efficiency_factor"), PyInt(155)),
        Item(Chars("device_name"), PyStr(Chars("Garmin"))),
        Item(Chars("power_meter"), PyInt(157)), Item(Chars("file_type"), PyInt(158)) >>,
      workout |-> <<
        Item(Chars("name"), PyStr(Chars("Morning Ride"))),
        Item(Chars("description"), PyStr(Chars("Easy spin"))),
        Item(Chars("sport"), PyStr(Chars("Ride"))), Item(Chars("duration"), PyInt(103)),
        Item(Chars("tss"), PyInt(104)), Item(Chars("intervals"), PyList(<< PyDict(<<
        Item(Chars("duration"), PyInt(60))>>), PyDict(<<
        Item(Chars("duration"), PyInt(120))>>)>>)) >>,
      wellness |-> <<
        Item(Chars("id"), PyStr(Chars("2024-01-01"))), Item(Chars("ctl"), PyInt(101)),
        Item(Chars("atl"), PyInt(102)), Item(Chars("rampRate"), PyInt(103)),
        Item(Chars("ctlLoad"), PyInt(104)), Item(Chars("atlLoad"), PyInt(105)),
        Item(Chars("sportInfo"), PyList(<< PyDict(<<
        Item(Chars("type"), PyStr(Chars("Run")))>>), PyDict(<<
        Item(Chars("type"), PyStr(Chars("Ride"))), Item(Chars("eftp"), PyInt(250))>>)>>)),
        Item(Chars("weight"), PyInt(107)), Item(Chars("restingHR"), PyInt(108)),
        Item(Chars("hrv"), PyInt(109)), Item(Chars("hrvSDNN"), PyInt(110)),
        Item(Chars("avgSleepingHR"), PyInt(111)), Item(Chars("spO2"), PyInt(112)),
        Item(Chars("systolic"), PyInt(113)), Item(Chars("diastolic"), PyInt(114)),
        Item(Chars("respiration"), PyInt(115)), Item(Chars("bloodGlucose"), PyInt(116)),
        Item(Chars("lactate"), PyInt(117)), Item(Chars("vo2max"), PyInt(118)),
        Item(Chars("bodyFat"), PyInt(119)), Item(Chars("abdomen"), PyInt(120)),
        Item(Chars("baevskySI"), PyInt(121)), Item(Chars("sleepSecs"), PyInt(27000)),
        Item(Chars("sleepHours"), PyInt(8)), Item(Chars("sleepQuality"), PyInt(2)),
        Item(Chars("sleepScore"), PyInt(125)), Item(Chars("readiness"), PyInt(126)),
        Item(Chars("menstrualPhase"), PyStr(Chars("FOLLICULAR"))),
        Item(Chars("menstrualPhasePredicted"), PyStr(Chars("luteal"))),
        Item(Chars("soreness"), PyInt(129)), Item(Chars("fatigue"), PyInt(130)),
        Item(Chars("stress"), PyInt(131)), Item(Chars("mood"), PyInt(132)),
        Item(Chars("motivation"), PyInt(133)), Item(Chars("injury"), PyInt(134)),
        Item(Chars("kcalConsumed"), PyInt(135)), Item(Chars("hydrationVolume"), PyInt(136)),
        Item(Chars("hydration"), PyInt(137)), Item(Chars("steps"), PyInt(138)),
        Item(Chars("comments"), PyStr(Chars("Felt good"))), Item(Chars("locked"), PyBool(TRUE)) >>,
      event |-> <<
        Item(Chars("start_date_local"), PyStr(Chars("2024-03-01T07:00:00"))),
        Item(Chars("date"), PyStr(Chars("2024-03-01"))), Item(Chars("id"), PyInt(102)),
        Item(Chars("name"), PyStr(Chars("Morning Ride"))),
        Item(Chars("description"), PyStr(Chars("Easy spin"))), Item(Chars("workout"), PyDict(<<
        Item(Chars("id"), PyInt(200)), Item(Chars("sport"), PyStr(Chars("Ride"))),
        Item(Chars("duration"), PyInt(202)), Item(Chars("tss"), PyInt(203)),
        Item(Chars("intervals"), PyList(<< PyDict(<<
        Item(Chars("duration"), PyInt(60))>>)>>))>>)), Item(Chars("race"), PyBool(TRUE)),
        Item(Chars("priority"), PyStr(Chars("A"))), Item(Chars("result"), PyStr(Chars("1st"))),
        Item(Chars("calendar"), PyDict(<< Item(Chars("name"), PyStr(Chars("Main")))>>)) >>,
      intervals |-> <<
        Item(Chars("id"), PyInt(100)), Item(Chars("analyzed"), PyBool(TRUE)),
        Item(Chars("icu_intervals"), PyList(<< PyDict(<<
        Item(Chars("label"), PyStr(Chars("Warmup"))),
        Item(Chars("type"), PyStr(Chars("Ride"))), Item(Chars("elapsed_time"), PyInt(302)),
        Item(Chars("moving_time"), PyInt(303)), Item(Chars("distance"), PyInt(304)),
        Item(Chars("start_index"), PyInt(305)), Item(Chars("end_index"), PyInt(306)),
        Item(Chars("average_watts"), PyInt(307)), Item(Chars("average_watts_kg"), PyInt(308)),
        Item(Chars("max_watts"), PyInt(309)), Item(Chars("max_watts_kg"), PyInt(310)),
        Item(Chars("weighted_average_watts"), PyInt(311)),
        Item(Chars("intensity"), PyInt(312)), Item(Chars("training_load"), PyInt(313)),
        Item(Chars("joules"), PyInt(314)), Item(Chars("joules_above_ftp"), PyInt(315)),
        Item(Chars("zone"), PyInt(316)), Item(Chars("zone_min_watts"), PyInt(317)),
        Item(Chars("zone_max_watts"), PyInt(318)), Item(Chars("wbal_start"), PyInt(319)),
        Item(Chars("wbal_end"), PyInt(320)), Item(Chars("avg_lr_balance"), PyInt(321)),
        Item(Chars("w5s_variability"), PyInt(322)), Item(Chars("average_torque"), PyInt(323)),
        Item(Chars("min_torque"), PyInt(324)), Item(Chars("max_torque"), PyInt(325)),
        Item(Chars("average_heartrate"), PyInt(326)), Item(Chars("min_heartrate"), PyInt(327)),
        Item(Chars("max_heartrate"), PyInt(328)), Item(Chars("decoupling"), PyInt(329)),
        Item(Chars("average_dfa_a1"), PyInt(330)),
        Item(Chars("average_respiration"), PyInt(331)),
        Item(Chars("average_epoc"), PyInt(332)), Item(Chars("average_smo2"), PyInt(333)),
        Item(Chars("average_smo2_2"), PyInt(334)), Item(Chars("average_thb"), PyInt(335)),
        Item(Chars("average_thb_2"), PyInt(336)), Item(Chars("average_speed"), PyInt(337)),
        Item(Chars("min_speed"), PyInt(338)), Item(Chars("max_speed"), PyInt(339)),
        Item(Chars("gap"), PyInt(340)), Item(Chars("average_cadence"), PyInt(341)),
        Item(Chars("min_cadence"), PyInt(342)), Item(Chars("max_cadence"), PyInt(343)),
        Item(Chars("average_stride"), PyInt(344)),
        Item(Chars("total_elevation_gain"), PyInt(345)),
        Item(Chars("min_altitude"), PyInt(346)), Item(Chars("max_altitude"), PyInt(347)),
        Item(Chars("average_gradient"), PyInt(348)), Item(Chars("average_temp"), PyInt(349)),
        Item(Chars("average_weather_temp"), PyInt(350)),
        Item(Chars("average_feels_like"), PyInt(351)),
        Item(Chars("average_wind_speed"), PyInt(352)),
        Item(Chars("average_wind_gust"), PyInt(353)),
        Item(Chars("prevailing_wind_deg"), PyInt(354)),
        Item(Chars("headwind_percent"), PyInt(355)),
        Item(Chars("tailwind_percent"), PyInt(356))>>), PyDict(<<
        Item(Chars("label"), PyStr(Chars("Warmup"))),
        Item(Chars("type"), PyStr(Chars("Ride"))), Item(Chars("elapsed_time"), PyInt(402)),
        Item(Chars("moving_time"), PyInt(403)), Item(Chars("distance"), PyInt(404)),
        Item(Chars("start_index"), PyInt(405)), Item(Chars("end_index"), PyInt(406)),
        Item(Chars("average_watts"), PyInt(407)), Item(Chars("average_watts_kg"), PyInt(408)),
        Item(Chars("max_watts"), PyInt(409)), Item(Chars("max_watts_kg"), PyInt(410)),
        Item(Chars("weighted_average_watts"), PyInt(411)),
        Item(Chars("intensity"), PyInt(412)), Item(Chars("training_load"), PyInt(413)),
        Item(Chars("joules"), PyInt(414)), Item(Chars("joules_above_ftp"), PyInt(415)),
        Item(Chars("zone"), PyInt(416)), Item(Chars("zone_min_watts"), PyInt(417)),
        Item(Chars("zone_max_watts"), PyInt(418)), Item(Chars("wbal_start"), PyInt(419)),
        Item(Chars("wbal_end"), PyInt(420)), Item(Chars("avg_lr_balance"), PyInt(421)),
        Item(Chars("w5s_variability"), PyInt(422)), Item(Chars("average_torque"), PyInt(423)),
        Item(Chars("min_torque"), PyInt(424)), Item(Chars("max_torque"), PyInt(425)),
        Item(Chars("average_heartrate"), PyInt(426)), Item(Chars("min_heartrate"), PyInt(427)),
        Item(Chars("max_heartrate"), PyInt(428)), Item(Chars("decoupling"), PyInt(429)),
        Item(Chars("average_dfa_a1"), PyInt(430)),
        Item(Chars("average_respiration"), PyInt(431)),
        Item(Chars("average_epoc"), PyInt(432)), Item(Chars("average_smo2"), PyInt(433)),
        Item(Chars("average_smo2_2"), PyInt(434)), Item(Chars("average_thb"), PyInt(435)),
        Item(Chars("average_thb_2"), PyInt(436)), Item(Chars("average_speed"), PyInt(437)),
        Item(Chars("min_speed"), PyInt(438)), Item(Chars("max_speed"), PyInt(439)),
        Item(Chars("gap"), PyInt(440)), Item(Chars("average_cadence"), PyInt(441)),
        Item(Chars("min_cadence"), PyInt(442)), Item(Chars("max_cadence"), PyInt(443)),
        Item(Chars("average_stride"), PyInt(444)),
        Item(Chars("total_elevation_gain"), PyInt(445)),
        Item(Chars("min_altitude"), PyInt(446)), Item(Chars("max_altitude"), PyInt(447)),
        Item(Chars("average_gradient"), PyInt(448)), Item(Chars("average_temp"), PyInt(449)),
        Item(Chars("average_weather_temp"), PyInt(450)),
        Item(Chars("average_feels_like"), PyInt(451)),
        Item(Chars("average_wind_speed"), PyInt(452)),
        Item(Chars("average_wind_gust"), PyInt(453)),
        Item(Chars("prevailing_wind_deg"), PyInt(454)),
        Item(Chars("headwind_percent"), PyInt(455)),
        Item(Chars("tailwind_percent"), PyInt(456))>>)>>)), Item(Chars("icu_groups"), PyList(<<
        PyDict(<< Item(Chars("id"), PyInt(500)), Item(Chars("count"), PyInt(501)),
        Item(Chars("elapsed_time"), PyInt(502)), Item(Chars("moving_time"), PyInt(503)),
        Item(Chars("distance"), PyInt(504)), Item(Chars("start_index"), PyInt(505)),
        Item(Chars("average_watts"), PyInt(506)), Item(Chars("average_watts_kg"), PyInt(507)),
        Item(Chars("max_watts"), PyInt(508)),
        Item(Chars("weighted_average_watts"), PyInt(509)),
        Item(Chars("intensity"), PyInt(510)), Item(Chars("average_heartrate"), PyInt(511)),
        Item(Chars("max_heartrate"), PyInt(512)), Item(Chars("average_speed"), PyInt(513)),
        Item(Chars("max_speed"), PyInt(514)), Item(Chars("average_cadence"), PyInt(515)),
        Item(Chars("max_cadence"), PyInt(516))>>), PyDict(<< Item(Chars("id"), PyInt(600)),
        Item(Chars("count"), PyInt(601)), Item(Chars("elapsed_time"), PyInt(602)),
        Item(Chars("moving_time"), PyInt(603)), Item(Chars("distance"), PyInt(604)),
        Item(Chars("start_index"), PyInt(605)), Item(Chars("average_watts"), PyInt(606)),
        Item(Chars("average_watts_kg"), PyInt(607)), Item(Chars("max_watts"), PyInt(608)),
        Item(Chars("weighted_average_watts"), PyInt(609)),
        Item(Chars("intensity"), PyInt(610)), Item(Chars("average_heartrate"), PyInt(611)),
        Item(Chars("max_heartrate"), PyInt(612)), Item(Chars("average_speed"), PyInt(613)),
        Item(Chars("max_speed"), PyInt(614)), Item(Chars("average_cadence"), PyInt(615)),
        Item(Chars("max_cadence"), PyInt(616))>>)>>)) >> ]

\* The payload kinds with the formatters of each.
Formatters ==
    [activity |-> {"format_activity_summary"}, workout |-> {"format_workout"},
     wellness |-> {"format_wellness_entry"},
     event |-> {"format_event_summary", "format_event_details"},
     intervals |-> {"format_intervals"}]

\* What a field holds when its data is malformed: null, a number, a str.
MalformedValues == {PyNone, PyInt(7), PyStr(<<"x">>)}

\* d without its fields lo..hi
Window(d, lo, hi) == SubSeq(d, 1, lo - 1) \o SubSeq(d, hi + 1, Len(d))

\* The mapping nested in a field's value, if there is one: the value itself or
\* the last element of a sequence of mappings.
NestedMapping(v) ==
    IF v.t = "dict" THEN <<v.items>>
    ELSE IF v.t = "list" /\ v.items # <<>> /\ v.items[Len(v.items)].t = "dict"
    THEN <<v.items[Len(v.items)].items>>
    ELSE <<>>

\* The inputs of the formatters. Each names a payload of one of three shapes:
\*   absent     the fields lo..hi of Full[kind] are absent (none, some, all),
\*              or those of the mapping nested in its field `at`
\*   malformed  the field `at` of Full[kind] holds `value`, of another kind
\*   custom     at most MaxFields keys `more` are added to Full[kind] or to {}
FormatInputs ==
    LET In(kind, shape, at, lo, hi, value, base, more) ==
            [kind |-> kind, shape |-> shape, at |-> at, lo |-> lo, hi |-> hi,
             value |-> value, base |-> base, more |-> more]
        Windows(n) == {w \in (1..n + 1) \X (0..n) : w[2] >= w[1] - 1}
        More == {e \in Dicts({Chars("customField"), Chars("myCustomMetric"),
                              Chars("custom_field"), Chars("CustomField"), Chars("name"),
                              Chars("restingHR"), Chars("avgPower")}, {PyInt(1)}, MaxFields) :
                    DistinctKeys(e)}
        Of(kind) ==
            LET full == Full[kind]
            IN  {In(kind, "absent", 0, w[1], w[2], PyNone, "full", <<>>) :
                    w \in Windows(Len(full))}
                \cup UNION {{In(kind, "absent", i, w[1], w[2], PyNone, "full", <<>>) :
                                w \in Windows(Len(NestedMapping(full[i].v)[1]))} :
                            i \in {j \in DOMAIN full : NestedMapping(full[j].v) # <<>>}}
                \cup UNION {{In(kind, "malformed", i, 0, 0, v, "full", <<>>) :
                                v \in {m \in MalformedValues : m.t # full[i].v.t}} :
                            i \in DOMAIN full}
                \cup {In(kind, "custom", 0, 0, 0, PyNone, base, e) :
                         base \in {"empty", "full"}, e \in More}
    IN  UNION {Of(kind) : kind \in DOMAIN Formatters}

\* The payload an input names.
Payload(in) ==
    LET full == Full[in.kind]
        With(v) == [full EXCEPT ![in.at] = Item(full[in.at].k, v)]
        old == full[in.at].v
        inner == PyDict(Window(NestedMapping(old)[1], in.lo, in.hi))
    IN  CASE in.shape = "absent" /\ in.at = 0 -> Window(full, in.lo, in.hi)
          [] in.shape = "absent" /\ in.at # 0 ->
                With(IF old.t = "dict" THEN inner
                     ELSE PyList(SubSeq(old.items, 1, Len(old.items) - 1) \o <<inner>>))
          [] in.shape = "malformed" -> With(in.value)
          [] in.shape = "custom" ->
                SelectSeq(IF in.base = "full" THEN full ELSE <<>>,
                          LAMBDA it : ~HasKey(in.more, it.k)) \o in.more

\* format_...(payload), by the name of the formatter
Format(formatter, payload) ==
    CASE formatter = "format_activity_summary" -> format_activity_summary(payload)
      [] formatter = "format_workout" -> format_workout(payload)
      [] formatter = "format_wellness_entry" -> format_wellness_entry(payload)
      [] formatter = "format_event_summary" -> format_event_summary(payload)
      [] formatter = "format_event_details" -> format_event_details(payload)
      [] formatter = "format_intervals" -> format_intervals(payload)

FormatInit ==
    /\ ShimInit
    /\ StackIdle
    /\ lifespan = NoLifespan
    /\ applied = "none"
    /\ input \in FormatInputs
    /\ output = <<>>

\* A formatter of the input's kind is called with its payload.
ApplyFormat(formatter) ==
    /\ applied = "none"
    /\ formatter \in Formatters[input.kind]
    /\ applied' = formatter
    /\ output' = Format(formatter, Payload(input))
    /\ UNCHANGED input
    /\ UNCHANGED <<shimVars, launchVars>>

FormatNext ==
    \/ ApplyFormat("format_activity_summary")
    \/ ApplyFormat("format_workout")
    \/ ApplyFormat("format_wellness_entry")
    \/ ApplyFormat("format_event_summary")
    \/ ApplyFormat("format_event_details")
    \/ ApplyFormat("format_intervals")

FormatSpec == FormatInit /\ [][FormatNext]_vars

\* ------------------------------------------------- claims on the formatters
\* The pieces a text shows.
Shown(doc) == UNION {{doc[i][j] : j \in DOMAIN doc[i]} : i \in DOMAIN doc}

\* Each field of the template of which d holds no key is shown with the
\* template's default for it.
DefaultsShown(template, d, doc) ==
    \A i \in DOMAIN template : \A j \in DOMAIN template[i] :
        LET p == template[i][j]
        IN  (p.keys # <<>> /\ \A k \in DOMAIN p.keys : ~HasKey(d, p.keys[k]))
                => Seg(p.lit, str(p.default)) \in Shown(doc)

C15_MalformedNeverRaises ==
    (applied # "none" /\ input.shape = "malformed") => output.raised = "none"

\* The keys of the payload that are custom fields for a known-field set.
CustomFieldsOf(payload, known) ==
    {payload[i].k : i \in {j \in DOMAIN payload :
                              CamelCaseAsClaimed(payload[j].k) /\ payload[j].k \notin known}}

HasCustomHeader(doc) == \E i \in DOMAIN doc : doc[i] = <<Seg("Custom Fields:", <<>>)>>

\* The text ends with the "Custom Fields:" header and n lines "- label: value".
EndsWithCustomSection(doc, n) ==
    /\ Len(doc) > n
    /\ \A i \in DOMAIN doc : doc[i] = <<Seg("Custom Fields:", <<>>)>> <=> i = Len(doc) - n
    /\ \A i \in Len(doc) - n + 1..Len(doc) :
            Len(doc[i]) = 2 /\ doc[i][1].lit = "- " /\ doc[i][2].lit = ": "

\* C16: every formatter detects the custom fields of its payload against the
\* known-field set of its kind and, when there are any, ends its output with a
\* "Custom Fields:" section that lists them. The code has a known-field set
\* for activities and for wellness entries only; for the other kinds the
\* fields the formatter reads are taken as the known ones.
C16_EveryFormatterAppendsCustomFields ==
    (applied # "none" /\ input.shape = "custom" /\ output.raised = "none") =>
        LET known == CASE input.kind = "activity" -> _KNOWN_ACTIVITY_FIELDS
                       [] input.kind = "wellness" -> _KNOWN_WELLNESS_FIELDS
                       [] OTHER -> {Full[input.kind][i].k : i \in DOMAIN Full[input.kind]}
            custom == CustomFieldsOf(Payload(input), known)
        IN  custom # {} => EndsWithCustomSection(output.value, Cardinality(custom))

\* C19: format_activity_summary and format_wellness_entry put the "Custom
\* Fields:" header in their output exactly when the payload has a camelCase
\* key outside the kind's known-field set; the header is then followed by one
\* line for each such key and these lines end the output.
C19_CustomSectionIffCustomKey ==
    (applied \in {"format_activity_summary", "format_wellness_entry"}
        /\ output.raised = "none") =>
        LET known == IF applied = "format_activity_summary" THEN _KNOWN_ACTIVITY_FIELDS
                     ELSE _KNOWN_WELLNESS_FIELDS
            custom == CustomFieldsOf(Payload(input), known)
        IN  IF custom # {} THEN EndsWithCustomSection(output.value, Cardinality(custom))
            ELSE ~HasCustomHeader(output.value)

\* The wellness formatter was applied to a full entry with two more keys, one
\* of them a custom field, and its output ends with the section.
C19_Witness ==
    /\ applied = "format_wellness_entry"
    /\ input.shape = "custom"
    /\ input.base = "full"
    /\ Len(input.more) = 2
    /\ CustomFieldsOf(Payload(input), _KNOWN_WELLNESS_FIELDS) = {Chars("customField")}
    /\ output.raised = "none"
    /\ output.value[Len(output.value) - 1] = <<Seg("Custom Fields:", <<>>)>>
    /\ output.value[Len(output.value)] = <<Seg("- ", Chars("Custom Field")), Seg(": ", <<"1">>)>>

\* C21: in format_wellness_entry the sleep line shows sleepHours as given
\* whenever sleepHours is given, also when sleepSecs is given too; it shows
\* sleepSecs / 3600 only when sleepSecs alone is given (7.50 for 27000); and
\* there is no sleep line when neither is given.
C21_SleepHoursDirectly ==
    (applied = "format_wellness_entry" /\ output.raised = "none") =>
        LET entries == Payload(input)
            given(k) == Get(entries, Chars(k), PyNone).t # "NoneType"
            sleep == {seg \in Shown(output.value) : seg.lit = "  Sleep: "}
        IN  /\ given("sleepHours") =>
                   sleep = {Seg("  Sleep: ", str(Get(entries, Chars("sleepHours"), PyNone)))}
            /\ given("sleepSecs") /\ ~given("sleepHours") =>
                   /\ Cardinality(sleep) = 1
                   /\ Get(entries, Chars("sleepSecs"), PyNone) = PyInt(27000) =>
                          sleep = {Seg("  Sleep: ", Chars("7.50"))}
            /\ ~given("sleepSecs") /\ ~given("sleepHours") => sleep = {}

\* C30: in format_wellness_entry every vital sign given with a non-null value
\* is in the output: systolic and diastolic as one line "Blood Pressure:
\* systolic/diastolic mmHg" when both are given, and a systolic or diastolic
\* value given without the other one is shown as well.
C30_VitalSignsAllRendered ==
    (applied = "format_wellness_entry" /\ output.raised = "none") =>
        LET entries == Payload(input)
            value(k) == Get(entries, Chars(k), PyNone)
            given(k) == value(k).t # "NoneType"
            vital == {"weight", "restingHR", "hrv", "hrvSDNN", "avgSleepingHR", "spO2",
                      "systolic", "diastolic", "respiration", "bloodGlucose", "lactate",
                      "vo2max", "bodyFat", "abdomen", "baevskySI"}
            pressure == <<Seg("- Blood Pressure: ", str(value("systolic"))),
                          Seg("/", str(value("diastolic"))), Seg(" mmHg", <<>>)>>
        IN  /\ \A k \in vital :
                   given(k) => \E seg \in Shown(output.value) : seg.sub = str(value(k))
            /\ given("systolic") /\ given("diastolic") =>
                   \E i \in DOMAIN output.value : output.value[i] = pressure

\* C22: format_event_details shows everything format_event_summary shows for
\* the same event: each labelled field of the summary (Date, with
\* start_date_local preferred to date, ID, Type, Name, Description) is in the
\* details with the same value.
C22_DetailsSupersetOfSummary ==
    (applied = "format_event_details" /\ output.raised = "none") =>
        \A seg \in Shown(format_event_summary(Payload(input)).value) :
            seg \in Shown(output.value)

\* C23: format_event_summary shows the type "Workout" when workout is truthy,
\* whatever race is, else "Race" when race is truthy, else "Other"; and as
\* date start_date_local when the key is there, else date, else "Unknown".
C23_TypePriorityAndDate ==
    (applied = "format_event_summary" /\ output.raised = "none") =>
        LET event == Payload(input)
            value(k) == Get(event, Chars(k), PyNone)
            type == IF Truthy(value("workout")) THEN "Workout"
                    ELSE IF Truthy(value("race")) THEN "Race"
                    ELSE "Other"
            date == IF HasKey(event, Chars("start_date_local")) THEN str(value("start_date_local"))
                    ELSE IF HasKey(event, Chars("date")) THEN str(value("date"))
                    ELSE Chars("Unknown")
        IN  /\ output.value[1] = <<Seg("Date: ", date)>>
            /\ output.value[3] = <<Seg("Type: ", Chars(type))>>

\* The summary of an event with a truthy workout and a truthy race says Workout.
C23_Witness ==
    /\ applied = "format_event_summary"
    /\ Truthy(Get(Payload(input), Chars("workout"), PyNone))
    /\ Truthy(Get(Payload(input), Chars("race"), PyNone))
    /\ ~HasKey(Payload(input), Chars("start_date_local"))
    /\ output.raised = "none"
    /\ output.value[1] = <<Seg("Date: ", Chars("2024-03-01"))>>
    /\ output.value[3] = <<Seg("Type: ", Chars("Workout"))>>

\* C24: format_intervals shows every sub-field of the four metric groups that
\* an interval lacks as 0 and never as "N/A", and it makes one block for each
\* element of icu_intervals, numbered 1, 2, ... in the order of the sequence.
C24_IntervalFallbackZero ==
    LET intervals == Get(Payload(input), Chars("icu_intervals"), PyNone)
        doc == output.value
        \* the metric groups start at the sixth line of a block, "Power Metrics:"
        Fallbacks(i) ==
            LET block == IntervalsTemplate("interval", i)
            IN  \A l \in 6..Len(block) : \A j \in DOMAIN block[l] :
                    LET p == block[l][j]
                    IN  (p.keys # <<>> /\ ~HasKey(intervals.items[i].items, p.keys[1]))
                            => /\ Seg(p.lit, <<"0">>) \in Shown(doc)
                               /\ Seg(p.lit, Chars("N/A")) \notin Shown(doc)
        heads == SelectSeq(doc, LAMBDA line : line # <<>> /\ line[1].lit = "[")
    IN  (applied = "format_intervals" /\ output.raised = "none"
            /\ intervals.t = "list" /\ intervals.items # <<>>) =>
            /\ \A i \in DOMAIN intervals.items : Fallbacks(i)
            /\ Len(heads) = Len(intervals.items)
            /\ \A i \in DOMAIN heads :
                    /\ heads[i][1].sub = Digits(i)
                    /\ heads[i][2].sub =
                           str(Get(intervals.items[i].items, Chars("label"),
                                   PyStr(Chars("Interval ") \o Digits(i))))

\* ------------------------------------------------------------- validation
\* datetime.strptime(date_str, "%Y-%m-%d"): the year, month and day, or
\* ValueError. The directives match as the regular expressions
\* (?P<Y>\d\d\d\d), (?P<m>1[0-2]|0[1-9]|[1-9]) and
\* (?P<d>3[0-1]|[1-2]\d|0[1-9]|[1-9]| [1-9]); text left after the match and a
\* day the month does not have are errors.
strptime(date_str) ==
    LET s == date_str
        n == Len(s)
        digit(c) == c \in {CodePoints[k] : k \in 6..15}
        nonzero(c) == c \in {CodePoints[k] : k \in 7..15}
        val(c) == ord(c) - 6
        yearOK == n >= 5 /\ (\A i \in 1..4 : digit(s[i])) /\ s[5] = "-"
        mlen == IF /\ n >= 8 /\ s[8] = "-"
                   /\ \/ s[6] = "1" /\ s[7] \in {"0", "1", "2"}
                      \/ s[6] = "0" /\ nonzero(s[7])
                THEN 2
                ELSE IF n >= 7 /\ s[7] = "-" /\ nonzero(s[6]) THEN 1
                ELSE 0
        r == SubSeq(s, 7 + mlen, n)
        dlen == IF /\ Len(r) >= 2
                   /\ \/ r[1] = "3" /\ r[2] \in {"0", "1"}
                      \/ r[1] \in {"1", "2"} /\ digit(r[2])
                      \/ r[1] = "0" /\ nonzero(r[2])
                THEN 2
                ELSE IF Len(r) >= 1 /\ nonzero(r[1]) THEN 1
                ELSE IF Len(r) >= 2 /\ r[1] = " " /\ nonzero(r[2]) THEN 2
                ELSE 0
        y == val(s[1]) * 1000 + val(s[2]) * 100 + val(s[3]) * 10 + val(s[4])
        m == IF mlen = 2 THEN val(s[6]) * 10 + val(s[7]) ELSE val(s[6])
        d == IF dlen = 2 /\ r[1] # " " THEN val(r[1]) * 10 + val(r[2]) ELSE val(r[dlen])
        monthDays == IF m = 2
                     THEN (IF y % 4 = 0 /\ (y % 100 # 0 \/ y % 400 = 0) THEN 29 ELSE 28)
                     ELSE IF m \in {4, 6, 9, 11} THEN 30 ELSE 31
    IN  IF yearOK /\ mlen > 0 /\ dlen > 0 /\ dlen = Len(r) /\ y >= 1 /\ d <= monthDays
        THEN Return(<<y, m, d>>)
        ELSE Raise("ValueError")

\* validate_date(date_str)
validate_date(date_str) ==
    IF strptime(date_str).raised = "none" THEN Return(PyStr(date_str))
    ELSE [raised |-> "ValueError",
          value |-> Chars("Invalid date format. Please use YYYY-MM-DD.")]

\* The strings validate_date is applied to: a year, a month and a day text
\* with a separator, with text before or after, and some others.
DateStrings ==
    LET years == {"2024", "2023", "1900", "0000", "24", "20a4"}
        months == {"01", "1", "02", "2", "04", "12", "13", "00", "0", "1a", ""}
        days == {"01", "1", "29", "30", "31", "32", "00", "0", " 5", "5 ", "311", ""}
        seps == {"-", "/"}
    IN  {Chars(y) \o Chars(a) \o Chars(m) \o Chars(a) \o Chars(d) :
            y \in years, m \in months, d \in days, a \in seps}
        \cup {Chars(t) : t \in {"", "2024-01", "20240101", "01-01-2024", " 2024-01-01",
                                "2024-01-01T00:00:00", "2024-01-01 ", "today"}}

ValidateInit ==
    /\ ShimInit
    /\ StackIdle
    /\ lifespan = NoLifespan
    /\ applied = "none"
    /\ input \in DateStrings
    /\ output = <<>>

\* validate_date(date_str) is called.
ApplyValidateDate ==
    /\ applied = "none"
    /\ applied' = "validate_date"
    /\ output' = validate_date(input)
    /\ UNCHANGED input
    /\ UNCHANGED <<shimVars, launchVars>>

ValidateNext == ApplyValidateDate

ValidateSpec == ValidateInit /\ [][ValidateNext]_vars

\* s is written YYYY-MM-DD, four digits, two and two, and is a date of the
\* calendar.
IsCalendarDate(s) ==
    LET digit(c) == c \in {"0", "1", "2", "3", "4", "5", "6", "7", "8", "9"}
        val(c) == CHOOSE v \in 0..9 : Digits(v) = <<c>>
        y == val(s[1]) * 1000 + val(s[2]) * 100 + val(s[3]) * 10 + val(s[4])
        m == val(s[6]) * 10 + val(s[7])
        d == val(s[9]) * 10 + val(s[10])
        leap == y % 4 = 0 /\ (y % 100 # 0 \/ y % 400 = 0)
    IN  /\ Len(s) = 10
        /\ \A i \in {1, 2, 3, 4, 6, 7, 9, 10} : digit(s[i])
        /\ s[5] = "-" /\ s[8] = "-"
        /\ y >= 1
        /\ m \in 1..12
        /\ d >= 1
        /\ d <= (CASE m = 2 -> (IF leap THEN 29 ELSE 28)
                   [] m \in {4, 6, 9, 11} -> 30
                   [] OTHER -> 31)

\* C25: validate_date returns its argument exactly when the argument is
\* written YYYY-MM-DD and is a date of the calendar, and raises ValueError
\* "Invalid date format. Please use YYYY-MM-DD." for every other string, a
\* date with a one-digit month or day among them.
C25_ValidateDateExact ==
    applied = "validate_date" =>
        IF IsCalendarDate(input) THEN output = [raised |-> "none", value |-> PyStr(input)]
        ELSE output = [raised |-> "ValueError",
                       value |-> Chars("Invalid date format. Please use YYYY-MM-DD.")]

\* ------------------------------------------------------------ scripts/launch_stack.py

\* How many times the monitoring loop may go to sleep.
MaxPolls == 2

\* The command lines and disks main() is run with: --no-ngrok given or not, and for
\* each executable whether existing() finds it at the given or the default path.
StackArgs == [no_ngrok : BOOLEAN, python_path : BOOLEAN, mcp_path : BOOLEAN,
              ngrok_path : BOOLEAN]

\* The local ngrok_exe once lines 97-101 are passed: None under --no-ngrok.
ngrok_exe == IF args.no_ngrok THEN "None" ELSE "ngrok.exe"

\* proc.poll(): None while the child runs, its return code afterwards.
poll(proc) == IF proc.alive THEN "None" ELSE "returncode"

\* launch_process(name, ...): the Popen objects it may return, none when Popen
\* raises FileNotFoundError and the function raises RuntimeError.
launch_process(name) ==
    [returned |-> [NoProcess EXCEPT !.spawned = TRUE, !.alive = TRUE],
     error |-> [type |-> "RuntimeError", message |-> "Failed to launch " \o name]]

LaunchInit ==
    /\ ShimInit
    /\ lifespan = NoLifespan
    /\ applied = "none"
    /\ input = <<>>
    /\ output = <<>>
    /\ args \in StackArgs
    /\ mainAt = "start"
    /\ server_proc = NoProcess
    /\ tunnel_proc = NoProcess
    /\ launches = <<>>
    /\ polls = 0
    /\ mainExc = NoException

\* main() leaves with the exception e, running no further statement of its own.
Leave(e) ==
    /\ mainAt' = "exited"
    /\ mainExc' = e

\* Lines 87-101: the command line is parsed and the executables are located.
Locate ==
    /\ mainAt = "start"
    /\ IF ~args.python_path
         THEN Leave([type |-> "SystemExit", message |-> "Could not locate python.exe"])
       ELSE IF ~args.mcp_path
         THEN Leave([type |-> "SystemExit", message |-> "Could not locate mcp.exe"])
       ELSE IF ~args.no_ngrok /\ ~args.ngrok_path
         THEN Leave([type |-> "SystemExit", message |-> "ngrok executable not found"])
       ELSE mainAt' = "server" /\ UNCHANGED mainExc
    /\ UNCHANGED <<args, server_proc, tunnel_proc, launches, polls>>
    /\ UNCHANGED <<shimVars, utilVars>>

\* Lines 124-125: the MCP server is launched.
StartServer ==
    /\ mainAt = "server"
    /\ launches' = Append(launches, "mcp")
    /\ \/ /\ server_proc' = launch_process("mcp").returned
          /\ mainAt' = "tunnel"
          /\ UNCHANGED mainExc
       \/ /\ Leave(launch_process("mcp").error)
          /\ UNCHANGED server_proc
    /\ UNCHANGED <<args, tunnel_proc, polls>>
    /\ UNCHANGED <<shimVars, utilVars>>

\* Lines 127-135: tunnel_args is bound only when ngrok_exe is not None, and line 135
\* then launches ngrok from tunnel_args whichever way the test went.
StartTunnel ==
    /\ mainAt = "tunnel"
    /\ IF ngrok_exe = "None"
         THEN /\ Leave([type |-> "UnboundLocalError", message |-> "tunnel_args"])
              /\ UNCHANGED <<tunnel_proc, launches>>
         ELSE /\ launches' = Append(launches, "ngrok")
              /\ \/ /\ tunnel_proc' = launch_process("ngrok").returned
                    /\ mainAt' = "monitor"
                    /\ UNCHANGED mainExc
                 \/ /\ Leave(launch_process("ngrok").error)
                    /\ UNCHANGED tunnel_proc
    /\ UNCHANGED <<args, server_proc, polls>>
    /\ UNCHANGED <<shimVars, utilVars>>

\* Lines 139-144: one iteration of the monitoring loop.
Monitor ==
    /\ mainAt = "monitor"
    /\ IF poll(server_proc) # "None"
         THEN /\ mainAt' = "signal_mcp"
              /\ mainExc' = [type |-> "RuntimeError",
                             message |-> "MCP server exited unexpectedly."]
              /\ UNCHANGED polls
       ELSE IF tunnel_proc.spawned /\ poll(tunnel_proc) # "None"
         THEN /\ mainAt' = "signal_mcp"
              /\ mainExc' = [type |-> "RuntimeError", message |-> "ngrok exited unexpectedly."]
              /\ UNCHANGED polls
       ELSE /\ polls < MaxPolls
            /\ polls' = polls + 1
            /\ UNCHANGED <<mainAt, mainExc>>
    /\ UNCHANGED <<args, server_proc, tunnel_proc, launches>>
    /\ UNCHANGED <<shimVars, utilVars>>

\* Ctrl+C: KeyboardInterrupt is raised in main(). Lines 145-146 catch it inside the
\* try statement of line 138; anywhere else it leaves main().
Interrupt ==
    /\ mainAt \notin {"idle", "exited"}
    /\ IF mainAt = "monitor"
         THEN mainAt' = "signal_mcp" /\ mainExc' = NoException
         ELSE Leave([type |-> "KeyboardInterrupt", message |-> "none"])
    /\ UNCHANGED <<args, server_proc, tunnel_proc, launches, polls>>
    /\ UNCHANGED <<shimVars, utilVars>>

\* A running child process exits by itself.
ChildExits ==
    /\ mainAt \notin {"idle", "exited"}
    /\ \/ /\ server_proc.alive
          /\ server_proc' = [server_proc EXCEPT !.alive = FALSE]
          /\ UNCHANGED tunnel_proc
       \/ /\ tunnel_proc.alive
          /\ tunnel_proc' = [tunnel_proc EXCEPT !.alive = FALSE]
          /\ UNCHANGED server_proc
    /\ UNCHANGED <<args, mainAt, launches, polls, mainExc>>
    /\ UNCHANGED <<shimVars, utilVars>>

\* Lines 149-153, for one proc: a child still running is sent CTRL_BREAK_EVENT, or
\* terminate() when that raises.
Signalled(proc) ==
    IF proc.spawned /\ poll(proc) = "None"
    THEN {[proc EXCEPT !.signalled = how] : how \in {"CTRL_BREAK_EVENT", "terminate"}}
    ELSE {proc}

\* Lines 155-159, for one proc: the child is waited for during 10 seconds, and
\* killed when it has not exited by then.
Waited(proc) ==
    IF ~proc.spawned THEN {proc}
    ELSE IF ~proc.alive THEN {[proc EXCEPT !.waited = TRUE]}
    ELSE {[proc EXCEPT !.waited = TRUE, !.alive = FALSE],
          [proc EXCEPT !.waited = TRUE, !.alive = FALSE, !.killed = TRUE]}

\* Lines 148-153: the first loop of the finally block, one proc at a time.
SignalChildren ==
    /\ \/ /\ mainAt = "signal_mcp"
          /\ server_proc' \in Signalled(server_proc)
          /\ mainAt' = "signal_ngrok"
          /\ UNCHANGED tunnel_proc
       \/ /\ mainAt = "signal_ngrok"
          /\ tunnel_proc' \in Signalled(tunnel_proc)
          /\ mainAt' = "wait_mcp"
          /\ UNCHANGED server_proc
    /\ UNCHANGED <<args, launches, polls, mainExc>>
    /\ UNCHANGED <<shimVars, utilVars>>

\* Lines 154-159: the second loop of the finally block, one proc at a time; after
\* it main() returns, or leaves with the pending exception.
WaitChildren ==
    /\ \/ /\ mainAt = "wait_mcp"
          /\ server_proc' \in Waited(server_proc)
          /\ mainAt' = "wait_ngrok"
          /\ UNCHANGED tunnel_proc
       \/ /\ mainAt = "wait_ngrok"
          /\ tunnel_proc' \in Waited(tunnel_proc)
          /\ mainAt' = "exited"
          /\ UNCHANGED server_proc
    /\ UNCHANGED <<args, launches, polls, mainExc>>
    /\ UNCHANGED <<shimVars, utilVars>>

LaunchNext ==
    \/ Locate
    \/ StartServer
    \/ StartTunnel
    \/ Monitor
    \/ Interrupt
    \/ ChildExits
    \/ SignalChildren
    \/ WaitChildren

LaunchSpec == LaunchInit /\ [][LaunchNext]_vars

\* C26: run with --no-ngrok, main() starts the MCP server only: once the server is
\* spawned no ngrok process is launched or attempted, and main() does not end
\* before it has been in the monitoring loop, which it leaves only because the
\* server exited or the user interrupted.
C26_NoNgrokServerOnly ==
    (args.no_ngrok /\ server_proc.spawned) =>
        /\ ~tunnel_proc.spawned
        /\ \A i \in DOMAIN launches : launches[i] # "ngrok"
        /\ mainAt = "exited" =>
              \/ mainExc.type = "KeyboardInterrupt"
              \/ mainExc = NoException
              \/ mainExc = [type |-> "RuntimeError",
                            message |-> "MCP server exited unexpectedly."]

\* C27: when main() has ended after it spawned the MCP server, every child it
\* spawned was waited for and none is still running; a child that was found
\* running was signalled first.
C27_NoChildLeftRunning ==
    (mainAt = "exited" /\ server_proc.spawned) =>
        \A proc \in {server_proc, tunnel_proc} :
            proc.spawned => ~proc.alive /\ proc.waited

\* C28: the tools bound through the host-class strategy are all registered on
\* one and the same instance of the host's class, and once an entry point of
\* the host was invoked, every instance holding a tool had its run invoked.
C28_OneStartedInstance ==
    LET bound == {i \in DOMAIN calls : calls[i].on = "inst" /\ calls[i].api = "tool"
                                       /\ calls[i].res = "ok"}
        started == {calls[i].inst : i \in {j \in DOMAIN calls : calls[j].on = "inst"
                                                                /\ calls[j].api = "run"}}
        invoked == \E i \in DOMAIN calls : calls[i].on \in {"host", "inst"}
                                           /\ calls[i].api \in {"run", "serve"}
    IN  /\ \A i, j \in bound : calls[i].inst = calls[j].inst
        /\ invoked => \A i \in bound : calls[i].inst \in started

\* C29: within one run() call nothing is called on the fallback host after the
\* run or serve entry point of the discovered host was invoked, whether that
\* entry point returned or raised.
C29_AtMostOneRuntime ==
    \A i, j \in DOMAIN calls :
        (/\ i < j
         /\ calls[i].on \in {"host", "inst"}
         /\ calls[i].api \in {"run", "serve"}) => calls[j].on # "fallback"
====
